---- MODULE Spec2Model ----
(***************************************************************************)
(* Model of Scientific.DistributedComputing.TaskManager: the TaskQueue,    *)
(* the TaskManager and the Watchdog.  Every remote call runs in its own    *)
(* server thread; a step of the model is one critical section of the code  *)
(* (one region between acquire and release of a lock or condition), or one *)
(* evaluation of the loop of a blocking queue operation.  The module also  *)
(* holds the thread-pool task manager of Scientific.Threading.TaskManager, *)
(* in a section of its own with variables of its own.                      *)
(*                                                                         *)
(* Encodings: a task id tag + "_" + str(n) is the pair <<tag, n>>; None    *)
(* for a process id is -1; a result payload r is <<r>> and an exception    *)
(* payload (exception, traceback) is <<exception, traceback>>; the opaque  *)
(* task parameters are left out.                                           *)
(***************************************************************************)
EXTENDS Integers, Sequences, FiniteSets, TLC

\* ---- bounds of the model ----
MaxTasks == 3
MaxProcs == 2
MaxTime == 3
RaceTasks == 1
RaceProcs == 1
SeqTasks == 2
SeqProcs == 1

Tags == {"a", "b"}
ResultValues == {"r1", "r2"}
Periods == {1}
Clients == {"c1", "c2"}
Threads == Clients \cup {"wd"}

\* Scientific.Threading: the threads that feed the task manager, its scheduler
\* thread, and the compute tasks, numbered in the order of their creation
MaxThreads == 2
MaxPoolTasks == 3
Feeders == {"f1", "f2"}
PoolThreads == Feeders \cup {"scheduler"}
PoolTasks == 0..(MaxPoolTasks - 1)

\* ---- values ----
None == -1
NoTask == <<>>
NoTag == ""
DefaultDelay == 60
ExceptionPayload == <<"exc", "tb">>
AllIds == {<<g, n>> : g \in Tags, n \in 0..(MaxTasks - 1)}

\* ---- Python list helpers ----
RECURSIVE ListRemove(_, _)
ListRemove(s, x) ==
    IF s = <<>> THEN <<>>
    ELSE IF Head(s) = x THEN Tail(s)
    ELSE <<Head(s)>> \o ListRemove(Tail(s), x)

Contains(s, x) == \E i \in 1..Len(s) : s[i] = x

Elems(s) == {s[i] : i \in 1..Len(s)}

Min(S) == CHOOSE x \in S : \A y \in S : x <= y

RECURSIVE Keys(_)
Keys(S) == IF S = {} THEN <<>> ELSE <<Min(S)>> \o Keys(S \ {Min(S)})

\* ---- TaskQueue ----
TaskQueue == [tasks |-> <<>>, tasks_by_tag |-> [g \in Tags |-> <<>>],
              tasks_by_id |-> {}, terminate |-> FALSE, task_available |-> "free"]

\* the lock of the condition task_available: "free" or the thread that holds it
acquire(q, th) == [q EXCEPT !.task_available = th]

release(q) == [q EXCEPT !.task_available = "free"]

terminateWaitingThreads(q) == [q EXCEPT !.terminate = TRUE]

\* a _checkForTermination that raises without releasing the condition
checkForTermination_KeepsLock(q) == q

\* _checkForTermination with terminate set: release(), then the raise
checkForTermination(q) == release(q)

\* an addTask that puts the task at the end of the list of its tag in any case
addTask_AtEnd(q, t, tag, in_front) ==
    [q EXCEPT !.tasks = Append(@, t),
              !.tasks_by_tag[tag] = Append(@, t),
              !.tasks_by_id = @ \cup {t}]

addTask(q, t, tag, in_front) ==
    [q EXCEPT !.tasks = Append(@, t),
              !.tasks_by_tag[tag] = IF in_front THEN <<t>> \o @ ELSE Append(@, t),
              !.tasks_by_id = @ \cup {t}]

\* a _removeTask that leaves the entry of the by-id index
TaskQueue_removeTask_KeepsById(q, t, tag) ==
    [q EXCEPT !.tasks = ListRemove(@, t),
              !.tasks_by_tag[tag] = ListRemove(@, t)]

TaskQueue_removeTask(q, t, tag) ==
    [q EXCEPT !.tasks = ListRemove(@, t),
              !.tasks_by_tag[tag] = ListRemove(@, t),
              !.tasks_by_id = @ \ {t}]

\* the loop condition of firstTask (tag = NoTag) and firstTaskWithTag
firstAvailable(q, tag) ==
    IF tag = NoTag THEN q.tasks # <<>> ELSE q.tasks_by_tag[tag] # <<>>

\* a firstTask that takes the task added last
firstTask_Last(q) == q.tasks[Len(q.tasks)]

firstTask(q) == q.tasks[1]

\* a firstTaskWithTag that takes the head of the primary list, whatever its tag
firstTaskWithTag_AnyTag(q, tag) == q.tasks[1]

\* a firstTaskWithTag that takes the task of the tag added last
firstTaskWithTag_Last(q, tag) == q.tasks_by_tag[tag][Len(q.tasks_by_tag[tag])]

firstTaskWithTag(q, tag) == q.tasks_by_tag[tag][1]

\* a lookup that takes the head of the primary list for a tagged request too
first_IgnoresTag(q, tag) == firstTask(q)

first(q, tag) == IF tag = NoTag THEN firstTask(q) ELSE firstTaskWithTag(q, tag)

VARIABLES
    id_counter, process_counter, active_processes, tasks_by_process, lock,
    results, task,
    waiting_tasks, running_tasks, finished_tasks,
    watchdog, ping_period, last_ping, done, thread_started, wdloc, replaced, now,
    pc, loc,
    handed, stored, retrieved, blocked_at_term, prior, declared_dead,
    earlier, earlier_finished, interrupted,
    nthreads, pool_waiting_tasks, pool_running_tasks, pool_pc, task_pc, calls

mvars == <<id_counter, process_counter, active_processes, tasks_by_process, lock>>
qvars == <<waiting_tasks, running_tasks, finished_tasks>>
wvars == <<watchdog, ping_period, last_ping, done, thread_started, wdloc>>
hvars == <<handed, stored, retrieved, blocked_at_term, prior, declared_dead,
          earlier, earlier_finished>>
vars == <<id_counter, process_counter, active_processes, tasks_by_process, lock,
          results, task, waiting_tasks, running_tasks, finished_tasks,
          watchdog, ping_period, last_ping, done, thread_started, wdloc, replaced,
          now, pc, loc,
          handed, stored, retrieved, blocked_at_term, prior, declared_dead,
          earlier, earlier_finished, interrupted,
          nthreads, pool_waiting_tasks, pool_running_tasks, pool_pc, task_pc, calls>>

\* the state of the Scientific.Threading task manager, and that of the
\* Scientific.DistributedComputing one
pool == <<nthreads, pool_waiting_tasks, pool_running_tasks, pool_pc, task_pc, calls>>
manager == <<mvars, results, task, qvars, wvars, replaced, now, pc, loc, hvars, interrupted>>

NoLoc == [op |-> "none", process_id |-> None, id |-> NoTask, tag |-> NoTag,
          payload |-> <<>>, completed |-> FALSE, tasks |-> <<>>, i |-> 0, self |-> 0,
          raised |-> "none"]
NoScan == [now |-> 0, min_delay |-> 0, dead_processes |-> <<>>, wake |-> 0]

ManagerInit ==
    /\ id_counter = 0
    /\ process_counter = 0
    /\ active_processes = <<>>
    /\ tasks_by_process = <<>>
    /\ lock = "free"
    /\ results = <<>>
    /\ task = <<>>
    /\ waiting_tasks = TaskQueue
    /\ running_tasks = TaskQueue
    /\ finished_tasks = TaskQueue
    /\ watchdog = FALSE
    /\ ping_period = <<>>
    /\ last_ping = <<>>
    /\ done = FALSE
    /\ thread_started = FALSE
    /\ wdloc = NoScan
    /\ replaced = <<>>
    /\ now = 0
    /\ pc = [th \in Threads |-> IF th = "wd" THEN "not_started" ELSE "idle"]
    /\ loc = [th \in Threads |-> NoLoc]
    /\ handed = [t \in AllIds |-> 0]
    /\ stored = [t \in AllIds |-> {}]
    /\ retrieved = [t \in AllIds |-> <<>>]
    /\ blocked_at_term = {}
    /\ prior = [t \in AllIds |-> {}]
    /\ earlier = [t \in AllIds |-> {}]
    /\ earlier_finished = [t \in AllIds |-> {}]
    /\ declared_dead = {}
    /\ interrupted = FALSE

\* no Scientific.Threading task manager has been constructed
NoPool ==
    /\ nthreads = 0
    /\ pool_waiting_tasks = <<>>
    /\ pool_running_tasks = <<>>
    /\ pool_pc = [th \in PoolThreads |-> "none"]
    /\ task_pc = [t \in PoolTasks |-> "none"]
    /\ calls = [t \in PoolTasks |-> 0]

Init == ManagerInit /\ NoPool


\* ---- dictionaries ----
Put(f, k, v) == [x \in DOMAIN f \cup {k} |-> IF x = k THEN v ELSE f[x]]

Del(f, k) == [x \in DOMAIN f \ {k} |-> f[x]]

\* ---- end of a call: the value or exception handed to the caller ----
Return(th) ==
    /\ pc' = [pc EXCEPT ![th] = "idle"]
    /\ loc' = [loc EXCEPT ![th] = NoLoc]

\* an exception that leaves the call, kept as the outcome of the thread's latest
\* call; in the watchdog thread it ends the thread
Raise(th, kind) ==
    /\ pc' = [pc EXCEPT ![th] = IF th = "wd" THEN "dead" ELSE "idle"]
    /\ loc' = [loc EXCEPT ![th] = [NoLoc EXCEPT !.raised = kind]]

Call(op) == [NoLoc EXCEPT !.op = op]

ProcessIds == 0..(process_counter - 1)

\* ---- TaskManager.registerProcess ----
\* a registerProcess that takes the number of active processes for the new id
RegisterProcess_ReusesId(th, watchdog_period) ==
    /\ pc[th] = "idle"
    /\ lock = "free"
    /\ process_counter < MaxProcs
    /\ process_counter' = process_counter + 1
    /\ active_processes' = Append(active_processes, Len(active_processes))
    /\ tasks_by_process' = Append(tasks_by_process, <<>>)
    /\ IF watchdog_period # None
       THEN /\ pc' = [pc EXCEPT ![th] = "register_watchdog"]
            /\ loc' = [loc EXCEPT ![th] = [Call("registerProcess") EXCEPT
                           !.process_id = Len(active_processes), !.i = watchdog_period]]
       ELSE Return(th)
    /\ UNCHANGED <<id_counter, lock, results, task, qvars, wvars, now, replaced, pool,
                   interrupted, hvars>>

RegisterProcess(th, watchdog_period) ==
    /\ pc[th] = "idle"
    /\ lock = "free"
    /\ process_counter < MaxProcs
    /\ process_counter' = process_counter + 1
    /\ active_processes' = Append(active_processes, process_counter)
    /\ tasks_by_process' = Append(tasks_by_process, <<>>)
    /\ IF watchdog_period # None
       THEN /\ pc' = [pc EXCEPT ![th] = "register_watchdog"]
            /\ loc' = [loc EXCEPT ![th] = [Call("registerProcess") EXCEPT
                           !.process_id = process_counter, !.i = watchdog_period]]
       ELSE Return(th)
    /\ UNCHANGED <<id_counter, lock, results, task, qvars, wvars, now, replaced, pool,
                   interrupted, hvars>>

\* Watchdog(self) on first use, then Watchdog.registerProcess, for a call that
\* no other registerProcess call with a period overlaps between its test of
\* self.watchdog and the end of Watchdog.registerProcess
RegisterWatchdog(th) ==
    /\ pc[th] = "register_watchdog"
    /\ watchdog' = TRUE
    /\ ping_period' = Put(ping_period, loc[th].process_id, loc[th].i)
    /\ last_ping' = Put(last_ping, loc[th].process_id, now)
    /\ thread_started' = TRUE
    /\ IF ~thread_started
       THEN /\ pc' = [pc EXCEPT ![th] = "idle", !["wd"] = "scan"]
            /\ loc' = [loc EXCEPT ![th] = NoLoc]
       ELSE Return(th)
    /\ UNCHANGED <<mvars, results, task, qvars, done, wdloc, now, replaced, pool, interrupted,
                   hvars>>

\* ---- registerProcess with a period, statement by statement ----
\* Lines 132-135 and Watchdog.registerProcess run outside the manager's lock.
\* The Watchdog that self.watchdog refers to is held in watchdog, ping_period,
\* last_ping, done, thread_started and the thread "wd"; an instance that an
\* assignment to self.watchdog has replaced is kept in replaced, and the
\* instances are numbered in the order of their creation.  A call inside
\* Watchdog.registerProcess keeps the instance it was made on in loc.self.
Instances == Len(replaced) + (IF watchdog THEN 1 ELSE 0)

\* if self.watchdog is None
WatchdogIsNone(th) ==
    /\ pc[th] = "register_watchdog"
    /\ pc' = [pc EXCEPT ![th] = IF watchdog THEN "watchdog_register" ELSE "watchdog_create"]
    /\ UNCHANGED <<mvars, results, task, qvars, wvars, replaced, now, pool, interrupted, loc,
                   hvars>>

\* self.watchdog = Watchdog(self)
NewWatchdog(th) ==
    /\ pc[th] = "watchdog_create"
    /\ watchdog' = TRUE
    /\ IF watchdog
       THEN /\ replaced' = Append(replaced, [ping_period |-> ping_period,
                                             last_ping |-> last_ping,
                                             thread_started |-> thread_started,
                                             running |-> pc["wd"] # "not_started"])
            /\ ping_period' = <<>>
            /\ last_ping' = <<>>
            /\ done' = FALSE
            /\ thread_started' = FALSE
            /\ wdloc' = NoScan
            /\ pc' = [pc EXCEPT ![th] = "watchdog_register", !["wd"] = "not_started"]
       ELSE /\ pc' = [pc EXCEPT ![th] = "watchdog_register"]
            /\ UNCHANGED <<ping_period, last_ping, done, thread_started, wdloc, replaced>>
    /\ UNCHANGED <<mvars, results, task, qvars, now, pool, interrupted, loc, hvars>>

\* self.watchdog.registerProcess(process_id, watchdog_period): the lock section
WatchdogRegisterProcess(th) ==
    /\ pc[th] = "watchdog_register"
    /\ ping_period' = Put(ping_period, loc[th].process_id, loc[th].i)
    /\ last_ping' = Put(last_ping, loc[th].process_id, now)
    /\ pc' = [pc EXCEPT ![th] = "watchdog_start_test"]
    /\ loc' = [loc EXCEPT ![th].self = Instances]
    /\ UNCHANGED <<mvars, results, task, qvars, watchdog, done, thread_started, wdloc,
                   replaced, now, pool, interrupted, hvars>>

\* the call runs on the instance self.watchdog refers to
OnCurrent(th) == loc[th].self = Instances

\* if not self.thread_started
WatchdogStartTest(th) ==
    /\ pc[th] = "watchdog_start_test"
    /\ IF IF OnCurrent(th) THEN thread_started ELSE replaced[loc[th].self].thread_started
       THEN Return(th)
       ELSE /\ pc' = [pc EXCEPT ![th] = "watchdog_start"]
            /\ UNCHANGED loc
    /\ UNCHANGED <<mvars, results, task, qvars, wvars, replaced, now, pool, interrupted, hvars>>

\* self.background_thread.start(): a thread can be started once, a second
\* start() raises
WatchdogStartThread(th) ==
    /\ pc[th] = "watchdog_start"
    /\ IF OnCurrent(th)
       THEN /\ IF pc["wd"] # "not_started"
               THEN Raise(th, "RuntimeError")
               ELSE /\ pc' = [pc EXCEPT ![th] = "watchdog_started", !["wd"] = "scan"]
                    /\ UNCHANGED loc
            /\ UNCHANGED replaced
       ELSE IF replaced[loc[th].self].running
            THEN /\ Raise(th, "RuntimeError")
                 /\ UNCHANGED replaced
            ELSE /\ replaced' = [replaced EXCEPT ![loc[th].self].running = TRUE]
                 /\ pc' = [pc EXCEPT ![th] = "watchdog_started"]
                 /\ UNCHANGED loc
    /\ UNCHANGED <<mvars, results, task, qvars, wvars, now, pool, interrupted, hvars>>

\* self.thread_started = True
WatchdogStartFlag(th) ==
    /\ pc[th] = "watchdog_started"
    /\ IF OnCurrent(th)
       THEN /\ thread_started' = TRUE
            /\ UNCHANGED replaced
       ELSE /\ replaced' = [replaced EXCEPT ![loc[th].self].thread_started = TRUE]
            /\ UNCHANGED thread_started
    /\ Return(th)
    /\ UNCHANGED <<mvars, results, task, qvars, watchdog, ping_period, last_ping, done,
                   wdloc, now, pool, interrupted, hvars>>

\* ---- TaskManager.ping / Watchdog.ping ----
Ping(th, process_id) ==
    /\ pc[th] = "idle"
    /\ process_id \in ProcessIds
    /\ last_ping' = IF watchdog THEN Put(last_ping, process_id, now) ELSE last_ping
    /\ Return(th)
    /\ UNCHANGED <<mvars, results, task, qvars, watchdog, ping_period, done,
                   thread_started, wdloc, now, replaced, pool, interrupted, hvars>>

\* ---- TaskManager.addTaskRequest ----
\* the truth value "if process_id:" takes: None and 0 are false
Truthy(process_id) == process_id # None /\ process_id # 0

\* requesting_processor of the new task: None from Task.__init__, the process
\* id when "if process_id:" holds
RequestingProcessor(process_id) == IF Truthy(process_id) THEN process_id ELSE None

\* an addTaskRequest that numbers the task by the tasks created so far
AddTaskRequest_CountsTasks(th, tag, process_id) ==
    /\ pc[th] = "idle"
    /\ lock = "free"
    /\ id_counter < MaxTasks
    /\ id_counter' = id_counter + 1
    /\ pc' = [pc EXCEPT ![th] = "add_enqueue"]
    /\ loc' = [loc EXCEPT ![th] = [Call("addTaskRequest") EXCEPT
                   !.id = <<tag, Cardinality(DOMAIN task)>>, !.tag = tag,
                   !.process_id = process_id]]
    /\ UNCHANGED <<process_counter, active_processes, tasks_by_process, lock,
                   results, task, qvars, wvars, now, replaced, pool, interrupted, hvars>>

AddTaskRequest(th, tag, process_id) ==
    /\ pc[th] = "idle"
    /\ lock = "free"
    /\ id_counter < MaxTasks
    /\ id_counter' = id_counter + 1
    /\ pc' = [pc EXCEPT ![th] = "add_enqueue"]
    /\ loc' = [loc EXCEPT ![th] = [Call("addTaskRequest") EXCEPT
                   !.id = <<tag, id_counter>>, !.tag = tag,
                   !.process_id = process_id]]
    /\ UNCHANGED <<process_counter, active_processes, tasks_by_process, lock,
                   results, task, qvars, wvars, now, replaced, pool, interrupted, hvars>>

AddEnqueue(th) ==
    /\ pc[th] = "add_enqueue"
    /\ task' = Put(task, loc[th].id, [tag |-> loc[th].tag,
                       requesting_processor |-> RequestingProcessor(loc[th].process_id),
                       handling_processor |-> None, completed |-> "unset",
                       request_time |-> now, start_time |-> None, end_time |-> None])
    /\ waiting_tasks.task_available = "free"
    /\ waiting_tasks' = addTask(waiting_tasks, loc[th].id, loc[th].tag, FALSE)
    /\ earlier' = [earlier EXCEPT ![loc[th].id] = Elems(waiting_tasks.tasks)]
    /\ Return(th)
    /\ UNCHANGED <<mvars, results, running_tasks, finished_tasks, wvars, now, replaced, pool,
                   interrupted,
                   handed, stored, retrieved, blocked_at_term, prior, declared_dead,
                   earlier_finished>>

\* ---- TaskManager.getAnyTask / getTaskWithTag ----
\* one evaluation of the loop of waiting_tasks.firstTask / firstTaskWithTag
WaitingTake(th, l) ==
    /\ waiting_tasks.task_available = "free"
    /\ IF firstAvailable(waiting_tasks, l.tag)
       THEN LET t == first(waiting_tasks, l.tag) IN
            /\ waiting_tasks' = TaskQueue_removeTask(waiting_tasks, t, task[t].tag)
            /\ pc' = [pc EXCEPT ![th] = "checkout"]
            /\ loc' = [loc EXCEPT ![th] = [l EXCEPT !.id = t]]
            /\ prior' = [x \in AllIds |-> IF x = t THEN {} ELSE prior[x] \ {t}]
            /\ earlier' = [x \in AllIds |-> IF x = t THEN {} ELSE earlier[x] \ {t}]
       ELSE IF waiting_tasks.terminate
       THEN /\ Raise(th, "Terminated")
            /\ waiting_tasks' = checkForTermination(acquire(waiting_tasks, th))
            /\ UNCHANGED <<prior, earlier>>
       ELSE /\ pc' = [pc EXCEPT ![th] = "firstTask"]
            /\ loc' = [loc EXCEPT ![th] = l]
            /\ UNCHANGED <<waiting_tasks, prior, earlier>>

GetTaskFrame(th) ==
    /\ blocked_at_term' = blocked_at_term \ {th}
    /\ UNCHANGED <<mvars, results, task, running_tasks, finished_tasks, wvars, now, replaced,
                   pool, interrupted,
                   handed, stored, retrieved, earlier_finished, declared_dead>>

GetAnyTask(th, process_id) ==
    /\ pc[th] = "idle"
    /\ process_id \in ProcessIds \cup {None}
    /\ WaitingTake(th, [Call("getAnyTask") EXCEPT !.process_id = process_id])
    /\ GetTaskFrame(th)

GetTaskWithTag(th, tag, process_id) ==
    /\ pc[th] = "idle"
    /\ process_id \in ProcessIds \cup {None}
    /\ WaitingTake(th, [Call("getTaskWithTag") EXCEPT !.process_id = process_id,
                                                      !.tag = tag])
    /\ GetTaskFrame(th)

\* a blocked firstTask / firstTaskWithTag is notified and evaluates its loop again
FirstTaskWake(th) ==
    /\ pc[th] = "firstTask"
    /\ firstAvailable(waiting_tasks, loc[th].tag) \/ waiting_tasks.terminate
    /\ WaitingTake(th, loc[th])
    /\ GetTaskFrame(th)

\* _checkoutTask up to running_tasks.addTask
Checkout(th) ==
    /\ pc[th] = "checkout"
    /\ task' = [task EXCEPT ![loc[th].id].handling_processor = loc[th].process_id,
                            ![loc[th].id].start_time = now]
    /\ running_tasks.task_available = "free"
    /\ running_tasks' = addTask(running_tasks, loc[th].id, task[loc[th].id].tag, FALSE)
    /\ IF loc[th].process_id # None
       THEN /\ pc' = [pc EXCEPT ![th] = "checkout_register"]
            /\ UNCHANGED <<loc, handed>>
       ELSE /\ Return(th)
            /\ handed' = [handed EXCEPT ![loc[th].id] = @ + 1]
    /\ UNCHANGED <<mvars, results, waiting_tasks, finished_tasks, wvars, now, replaced, pool,
                   interrupted,
                   stored, retrieved, earlier_finished, blocked_at_term, prior, earlier, declared_dead>>

\* _checkoutTask: self.tasks_by_process[process_id].append(task); for an id that
\* registerProcess never handed out the index raises IndexError with the lock held
CheckoutRegister(th) ==
    /\ pc[th] = "checkout_register"
    /\ lock = "free"
    /\ IF loc[th].process_id \in ProcessIds
       THEN /\ tasks_by_process' = [tasks_by_process EXCEPT ![loc[th].process_id + 1] =
                                       Append(@, loc[th].id)]
            /\ Return(th)
            /\ handed' = [handed EXCEPT ![loc[th].id] = @ + 1]
            /\ UNCHANGED lock
       ELSE /\ lock' = th
            /\ Raise(th, "IndexError")
            /\ UNCHANGED <<tasks_by_process, handed>>
    /\ UNCHANGED <<id_counter, process_counter, active_processes, results, task,
                   qvars, wvars, now, replaced, pool, interrupted, stored, retrieved,
                   earlier_finished, blocked_at_term, prior, earlier,
                   declared_dead>>

\* a taskWithId that returns the task and leaves it in the queue
RunningTake_NoRemove(th, l) ==
    /\ running_tasks.task_available = "free"
    /\ IF l.id \in running_tasks.tasks_by_id
       THEN /\ UNCHANGED running_tasks
            /\ pc' = [pc EXCEPT ![th] = IF l.op \in {"storeResult", "storeException"}
                                        THEN "store_finish" ELSE "return_remove"]
            /\ loc' = [loc EXCEPT ![th] = l]
       ELSE IF running_tasks.terminate
       THEN /\ Raise(th, "Terminated")
            /\ running_tasks' = checkForTermination(acquire(running_tasks, th))
       ELSE /\ pc' = [pc EXCEPT ![th] = "taskWithId"]
            /\ loc' = [loc EXCEPT ![th] = l]
            /\ UNCHANGED running_tasks

\* ---- running_tasks.taskWithId, used by storeResult, storeException, returnTask ----
\* one evaluation of the loop of running_tasks.taskWithId(l.id)
RunningTake(th, l) ==
    /\ running_tasks.task_available = "free"
    /\ IF l.id \in running_tasks.tasks_by_id
       THEN /\ running_tasks' = TaskQueue_removeTask(running_tasks, l.id, task[l.id].tag)
            /\ pc' = [pc EXCEPT ![th] = IF l.op \in {"storeResult", "storeException"}
                                        THEN "store_finish" ELSE "return_remove"]
            /\ loc' = [loc EXCEPT ![th] = l]
       ELSE IF running_tasks.terminate
       THEN /\ Raise(th, "Terminated")
            /\ running_tasks' = checkForTermination(acquire(running_tasks, th))
       ELSE /\ pc' = [pc EXCEPT ![th] = "taskWithId"]
            /\ loc' = [loc EXCEPT ![th] = l]
            /\ UNCHANGED running_tasks

\* a pending or blocked taskWithId evaluates its loop
TaskWithId(th) ==
    /\ pc[th] = "taskWithId"
    /\ loc[th].id \in running_tasks.tasks_by_id \/ running_tasks.terminate
    /\ RunningTake(th, loc[th])
    /\ UNCHANGED <<mvars, results, task, waiting_tasks, finished_tasks, wvars, now, replaced,
                   pool, interrupted, hvars>>

\* TaskManager._removeTask: the new held-task list of the handling process
\* a _removeTask that leaves the held-task list as it is
TaskManager_removeTask_Nothing(t) == tasks_by_process

TaskManager_removeTask(t) ==
    IF task[t].handling_processor # None
    THEN [tasks_by_process EXCEPT ![task[t].handling_processor + 1] = ListRemove(@, t)]
    ELSE tasks_by_process

\* ---- TaskManager.storeResult / storeException ----
\* a store that does not write the payload into the results map
Store_NoPayload(th, op, task_id, payload) ==
    /\ pc[th] = "idle"
    /\ lock = "free"
    /\ task_id \in DOMAIN task
    /\ handed[task_id] > 0
    /\ UNCHANGED results
    /\ handed' = [handed EXCEPT ![task_id] = @ - 1]
    /\ stored' = [stored EXCEPT ![task_id] = @ \cup {payload}]
    /\ pc' = [pc EXCEPT ![th] = "taskWithId"]
    /\ loc' = [loc EXCEPT ![th] = [Call(op) EXCEPT !.id = task_id, !.payload = payload]]
    /\ UNCHANGED <<mvars, task, qvars, wvars, now, replaced, pool, interrupted, retrieved,
                   earlier_finished, blocked_at_term, prior, earlier,
                   declared_dead>>

Store(th, op, task_id, payload) ==
    /\ pc[th] = "idle"
    /\ lock = "free"
    /\ task_id \in DOMAIN task
    /\ handed[task_id] > 0
    /\ results' = Put(results, task_id, payload)
    /\ handed' = [handed EXCEPT ![task_id] = @ - 1]
    /\ stored' = [stored EXCEPT ![task_id] = @ \cup {payload}]
    /\ pc' = [pc EXCEPT ![th] = "taskWithId"]
    /\ loc' = [loc EXCEPT ![th] = [Call(op) EXCEPT !.id = task_id, !.payload = payload]]
    /\ UNCHANGED <<mvars, task, qvars, wvars, now, replaced, pool, interrupted, retrieved,
                   earlier_finished, blocked_at_term, prior, earlier,
                   declared_dead>>

StoreResult(th, task_id, result) == Store(th, "storeResult", task_id, <<result>>)

StoreException(th, task_id) == Store(th, "storeException", task_id, ExceptionPayload)

StoreFinish(th) ==
    /\ pc[th] = "store_finish"
    /\ task' = [task EXCEPT ![loc[th].id].end_time = now,
                            ![loc[th].id].completed =
                                IF loc[th].op = "storeResult" THEN "True" ELSE "False"]
    /\ finished_tasks.task_available = "free"
    /\ finished_tasks' = addTask(finished_tasks, loc[th].id, task[loc[th].id].tag, FALSE)
    /\ earlier_finished' = [earlier_finished EXCEPT ![loc[th].id] = Elems(finished_tasks.tasks)]
    /\ pc' = [pc EXCEPT ![th] = "store_remove"]
    /\ UNCHANGED <<mvars, results, waiting_tasks, running_tasks, wvars, now, replaced, pool,
                   interrupted, loc,
                   handed, stored, retrieved, blocked_at_term, prior, declared_dead, earlier>>

StoreRemove(th) ==
    /\ pc[th] = "store_remove"
    /\ task[loc[th].id].handling_processor = None \/ lock = "free"
    /\ tasks_by_process' = TaskManager_removeTask(loc[th].id)
    /\ Return(th)
    /\ UNCHANGED <<id_counter, process_counter, active_processes, lock, results, task,
                   qvars, wvars, now, replaced, pool, interrupted, hvars>>

\* ---- TaskManager.returnTask ----
ReturnTask(th, task_id) ==
    /\ pc[th] = "idle"
    /\ task_id \in DOMAIN task
    /\ handed[task_id] > 0
    /\ handed' = [handed EXCEPT ![task_id] = @ - 1]
    /\ RunningTake(th, [Call("returnTask") EXCEPT !.id = task_id])
    /\ UNCHANGED <<mvars, results, task, waiting_tasks, finished_tasks, wvars, now, replaced,
                   pool, interrupted,
                   stored, retrieved, earlier_finished, blocked_at_term, prior, earlier, declared_dead>>

ReturnRemove(th) ==
    /\ pc[th] = "return_remove"
    /\ task[loc[th].id].handling_processor = None \/ lock = "free"
    /\ tasks_by_process' = TaskManager_removeTask(loc[th].id)
    /\ pc' = [pc EXCEPT ![th] = "return_add"]
    /\ UNCHANGED <<id_counter, process_counter, active_processes, lock, results, task,
                   qvars, wvars, now, replaced, pool, interrupted, loc, hvars>>

\* what a thread does after unregisterProcess has returned
AfterUnregister(th) ==
    IF th = "wd"
    THEN /\ pc' = [pc EXCEPT ![th] = "unregister_dead"]
         /\ loc' = [loc EXCEPT ![th] = NoLoc]
    ELSE Return(th)

\* a returnTask that puts the task into the finished queue
ReturnAdd_ToFinished(th) ==
    /\ pc[th] = "return_add"
    /\ task' = [task EXCEPT ![loc[th].id].start_time = None,
                            ![loc[th].id].handling_processor = None]
    /\ finished_tasks.task_available = "free"
    /\ finished_tasks' = addTask(finished_tasks, loc[th].id, task[loc[th].id].tag, TRUE)
    /\ UNCHANGED waiting_tasks
    /\ prior' = [prior EXCEPT ![loc[th].id] = Elems(waiting_tasks.tasks)]
    /\ earlier' = [earlier EXCEPT ![loc[th].id] = Elems(waiting_tasks.tasks)]
    /\ IF loc[th].op = "returnTask"
       THEN Return(th)
       ELSE IF loc[th].i < Len(loc[th].tasks)
       THEN /\ pc' = [pc EXCEPT ![th] = "taskWithId"]
            /\ loc' = [loc EXCEPT ![th].i = @ + 1, ![th].id = loc[th].tasks[loc[th].i + 1]]
       ELSE /\ pc' = [pc EXCEPT ![th] = "unregister_watchdog"]
            /\ UNCHANGED loc
    /\ UNCHANGED <<mvars, results, running_tasks, wvars, now, replaced, pool, interrupted,
                   handed, stored, retrieved, earlier_finished, blocked_at_term, declared_dead>>

\* a returnTask that leaves handling_processor set
ReturnAdd_KeepsHandling(th) ==
    /\ pc[th] = "return_add"
    /\ task' = [task EXCEPT ![loc[th].id].start_time = None]
    /\ waiting_tasks.task_available = "free"
    /\ waiting_tasks' = addTask(waiting_tasks, loc[th].id, task[loc[th].id].tag, TRUE)
    /\ prior' = [prior EXCEPT ![loc[th].id] = Elems(waiting_tasks.tasks)]
    /\ earlier' = [earlier EXCEPT ![loc[th].id] = Elems(waiting_tasks.tasks)]
    /\ IF loc[th].op = "returnTask"
       THEN Return(th)
       ELSE IF loc[th].i < Len(loc[th].tasks)
       THEN /\ pc' = [pc EXCEPT ![th] = "taskWithId"]
            /\ loc' = [loc EXCEPT ![th].i = @ + 1, ![th].id = loc[th].tasks[loc[th].i + 1]]
       ELSE /\ pc' = [pc EXCEPT ![th] = "unregister_watchdog"]
            /\ UNCHANGED loc
    /\ UNCHANGED <<mvars, results, running_tasks, finished_tasks, wvars, now, replaced, pool,
                   interrupted,
                   handed, stored, retrieved, earlier_finished, blocked_at_term, declared_dead>>

\* a returnTask that stamps end_time, as the completion of a task does
ReturnAdd_StampsEnd(th) ==
    /\ pc[th] = "return_add"
    /\ task' = [task EXCEPT ![loc[th].id].end_time = now,
                            ![loc[th].id].start_time = None,
                            ![loc[th].id].handling_processor = None]
    /\ waiting_tasks.task_available = "free"
    /\ waiting_tasks' = addTask(waiting_tasks, loc[th].id, task[loc[th].id].tag, TRUE)
    /\ prior' = [prior EXCEPT ![loc[th].id] = Elems(waiting_tasks.tasks)]
    /\ earlier' = [earlier EXCEPT ![loc[th].id] = Elems(waiting_tasks.tasks)]
    /\ IF loc[th].op = "returnTask"
       THEN Return(th)
       ELSE IF loc[th].i < Len(loc[th].tasks)
       THEN /\ pc' = [pc EXCEPT ![th] = "taskWithId"]
            /\ loc' = [loc EXCEPT ![th].i = @ + 1, ![th].id = loc[th].tasks[loc[th].i + 1]]
       ELSE /\ pc' = [pc EXCEPT ![th] = "unregister_watchdog"]
            /\ UNCHANGED loc
    /\ UNCHANGED <<mvars, results, running_tasks, finished_tasks, wvars, now, replaced, pool,
                   interrupted,
                   handed, stored, retrieved, earlier_finished, blocked_at_term, declared_dead>>

\* returnTask from the reset of the task's fields to waiting_tasks.addTask,
\* and the next iteration of the loop in unregisterProcess
ReturnAdd(th) ==
    /\ pc[th] = "return_add"
    /\ task' = [task EXCEPT ![loc[th].id].start_time = None,
                            ![loc[th].id].handling_processor = None]
    /\ waiting_tasks.task_available = "free"
    /\ waiting_tasks' = addTask(waiting_tasks, loc[th].id, task[loc[th].id].tag, TRUE)
    /\ prior' = [prior EXCEPT ![loc[th].id] = Elems(waiting_tasks.tasks)]
    /\ earlier' = [earlier EXCEPT ![loc[th].id] = Elems(waiting_tasks.tasks)]
    /\ IF loc[th].op = "returnTask"
       THEN Return(th)
       ELSE IF loc[th].i < Len(loc[th].tasks)
       THEN /\ pc' = [pc EXCEPT ![th] = "taskWithId"]
            /\ loc' = [loc EXCEPT ![th].i = @ + 1, ![th].id = loc[th].tasks[loc[th].i + 1]]
       ELSE /\ pc' = [pc EXCEPT ![th] = "unregister_watchdog"]
            /\ UNCHANGED loc
    /\ UNCHANGED <<mvars, results, running_tasks, finished_tasks, wvars, now, replaced, pool,
                   interrupted,
                   handed, stored, retrieved, earlier_finished, blocked_at_term, declared_dead>>

\* ---- TaskManager.unregisterProcess ----
\* the critical section of unregisterProcess(process_id), run by thread th
Unregister(th, process_id) ==
    /\ lock = "free"
    /\ IF ~Contains(active_processes, process_id)
       THEN \* list.remove raises ValueError while the lock is held
            /\ lock' = th
            /\ Raise(th, "ValueError")
            /\ UNCHANGED <<active_processes, tasks_by_process>>
       ELSE /\ active_processes' = ListRemove(active_processes, process_id)
            /\ tasks_by_process' = [tasks_by_process EXCEPT ![process_id + 1] = <<>>]
            /\ LET tasks == tasks_by_process[process_id + 1]
                   l == [Call("unregisterProcess") EXCEPT !.process_id = process_id,
                                                          !.tasks = tasks]
               IN IF tasks = <<>>
                  THEN /\ pc' = [pc EXCEPT ![th] = "unregister_watchdog"]
                       /\ loc' = [loc EXCEPT ![th] = l]
                  ELSE /\ pc' = [pc EXCEPT ![th] = "taskWithId"]
                       /\ loc' = [loc EXCEPT ![th] = [l EXCEPT !.i = 1, !.id = tasks[1]]]
            /\ UNCHANGED lock
    /\ UNCHANGED <<id_counter, process_counter, results, task, qvars, now, replaced, pool,
                   interrupted>>

UnregisterProcess(th, process_id) ==
    /\ pc[th] = "idle"
    /\ process_id \in ProcessIds
    /\ Unregister(th, process_id)
    /\ UNCHANGED <<wvars, hvars>>

\* Watchdog.unregisterProcess
UnregisterWatchdog(th) ==
    /\ pc[th] = "unregister_watchdog"
    /\ IF watchdog /\ loc[th].process_id \in DOMAIN ping_period
       THEN /\ ping_period' = Del(ping_period, loc[th].process_id)
            /\ last_ping' = Del(last_ping, loc[th].process_id)
       ELSE UNCHANGED <<ping_period, last_ping>>
    /\ AfterUnregister(th)
    /\ UNCHANGED <<mvars, results, task, qvars, watchdog, done, thread_started, wdloc,
                   now, replaced, pool, interrupted, hvars>>

\* ---- TaskManager.getAnyResult / getResultWithTag ----
\* one evaluation of the loop of finished_tasks.firstTask / firstTaskWithTag
FinishedTake(th, l) ==
    /\ finished_tasks.task_available = "free"
    /\ IF firstAvailable(finished_tasks, l.tag)
       THEN LET t == first(finished_tasks, l.tag) IN
            /\ finished_tasks' = TaskQueue_removeTask(finished_tasks, t, task[t].tag)
            /\ pc' = [pc EXCEPT ![th] = "result_read"]
            /\ loc' = [loc EXCEPT ![th] = [l EXCEPT !.id = t]]
            /\ earlier_finished' =
                   [x \in AllIds |-> IF x = t THEN {} ELSE earlier_finished[x] \ {t}]
       ELSE IF finished_tasks.terminate
       THEN /\ Raise(th, "Terminated")
            /\ finished_tasks' = checkForTermination(acquire(finished_tasks, th))
            /\ UNCHANGED earlier_finished
       ELSE /\ pc' = [pc EXCEPT ![th] = "firstResult"]
            /\ loc' = [loc EXCEPT ![th] = l]
            /\ UNCHANGED <<finished_tasks, earlier_finished>>

GetResultFrame(th) ==
    /\ blocked_at_term' = blocked_at_term \ {th}
    /\ UNCHANGED <<mvars, results, task, waiting_tasks, running_tasks, wvars, now, replaced,
                   pool, interrupted,
                   handed, stored, retrieved, prior, earlier, declared_dead>>

GetAnyResult(th) ==
    /\ pc[th] = "idle"
    /\ FinishedTake(th, Call("getAnyResult"))
    /\ GetResultFrame(th)

GetResultWithTag(th, tag) ==
    /\ pc[th] = "idle"
    /\ FinishedTake(th, [Call("getResultWithTag") EXCEPT !.tag = tag])
    /\ GetResultFrame(th)

FirstResultWake(th) ==
    /\ pc[th] = "firstResult"
    /\ firstAvailable(finished_tasks, loc[th].tag) \/ finished_tasks.terminate
    /\ FinishedTake(th, loc[th])
    /\ GetResultFrame(th)

\* result = self.results[task.id]
ResultRead(th) ==
    /\ pc[th] = "result_read"
    /\ IF loc[th].id \in DOMAIN results
       THEN /\ pc' = [pc EXCEPT ![th] = "result_del"]
            /\ loc' = [loc EXCEPT ![th].payload = results[loc[th].id]]
       ELSE Raise(th, "KeyError")
    /\ UNCHANGED <<mvars, results, task, qvars, wvars, now, replaced, pool, interrupted, hvars>>

\* the tag handed to the retriever: task.tag from getAnyResult, or the tag it asked for
ResultTag(l) == IF l.op = "getAnyResult" THEN task[l.id].tag ELSE l.tag

ResultValue(l) ==
    IF task[l.id].completed = "True"
    THEN [kind |-> "return",
          val |-> IF l.op = "getAnyResult" THEN <<l.id, task[l.id].tag, l.payload>>
                                           ELSE <<l.id, l.payload>>]
    ELSE [kind |-> "TaskRaisedException", val |-> <<l.id, task[l.id].tag>> \o l.payload]

\* del self.results[task.id] and the return or raise that ends the call
ResultDel(th) ==
    /\ pc[th] = "result_del"
    /\ IF loc[th].id \in DOMAIN results
       THEN /\ results' = Del(results, loc[th].id)
            /\ Return(th)
            /\ retrieved' = [retrieved EXCEPT ![loc[th].id] =
                   Append(@, [kind |-> ResultValue(loc[th]).kind,
                              tag |-> ResultTag(loc[th]),
                              payload |-> loc[th].payload])]
       ELSE /\ Raise(th, "KeyError")
            /\ UNCHANGED <<results, retrieved>>
    /\ UNCHANGED <<mvars, task, qvars, wvars, now, replaced, pool, interrupted, handed, stored,
                   blocked_at_term,
                   prior, earlier, earlier_finished, declared_dead>>

\* ---- TaskManager.numberOfTasks ----
\* a count that leaves out the tasks handed out to workers
numberOfTasks_WithoutRunning ==
    <<Len(waiting_tasks.tasks), 0, Len(finished_tasks.tasks)>>

\* nwaiting, nrunning, nfinished: len() of each queue is the length of its list
numberOfTasks ==
    <<Len(waiting_tasks.tasks), Len(running_tasks.tasks), Len(finished_tasks.tasks)>>

\* ---- TaskManager.terminate ----
Blocked(th) ==
    \/ pc[th] = "firstTask" /\ ~firstAvailable(waiting_tasks, loc[th].tag)
    \/ pc[th] = "firstResult" /\ ~firstAvailable(finished_tasks, loc[th].tag)

Terminate(th) ==
    /\ pc[th] = "idle"
    /\ waiting_tasks.task_available = "free"
    /\ waiting_tasks' = terminateWaitingThreads(waiting_tasks)
    /\ pc' = [pc EXCEPT ![th] = "terminate_running"]
    /\ loc' = [loc EXCEPT ![th] = Call("terminate")]
    /\ blocked_at_term' = blocked_at_term \cup {o \in Clients : Blocked(o)}
    /\ UNCHANGED <<mvars, results, task, running_tasks, finished_tasks, wvars, now, replaced,
                   pool, interrupted,
                   handed, stored, retrieved, earlier_finished, prior, earlier, declared_dead>>

TerminateRunning(th) ==
    /\ pc[th] = "terminate_running"
    /\ running_tasks.task_available = "free"
    /\ running_tasks' = terminateWaitingThreads(running_tasks)
    /\ pc' = [pc EXCEPT ![th] = "terminate_finished"]
    /\ UNCHANGED <<mvars, results, task, waiting_tasks, finished_tasks, wvars, now, replaced,
                   pool, interrupted,
                   loc, hvars>>

TerminateFinished(th) ==
    /\ pc[th] = "terminate_finished"
    /\ finished_tasks.task_available = "free"
    /\ finished_tasks' = terminateWaitingThreads(finished_tasks)
    /\ Return(th)
    /\ UNCHANGED <<mvars, results, task, waiting_tasks, running_tasks, wvars, now, replaced,
                   pool, interrupted, hvars>>

\* ---- Watchdog.terminate(blocking=False) ----
WatchdogTerminate(th) ==
    /\ pc[th] = "idle"
    /\ watchdog
    /\ done' = TRUE
    /\ UNCHANGED <<mvars, results, task, qvars, watchdog, ping_period, last_ping,
                   thread_started, wdloc, now, replaced, pool, interrupted, pc, loc, hvars>>

\* ---- time ----
Tick ==
    /\ now < MaxTime
    /\ now' = now + 1
    /\ UNCHANGED <<mvars, results, task, qvars, wvars, pc, loc, hvars, replaced, pool, interrupted>>

\* ---- Watchdog.watchdogThread ----
WatchdogScan ==
    /\ pc["wd"] = "scan"
    /\ wdloc' = [NoScan EXCEPT !.now = now,
                     !.min_delay = Min({ping_period[p] : p \in DOMAIN ping_period}
                                       \cup {DefaultDelay})]
    /\ pc' = [pc EXCEPT !["wd"] = "check"]
    /\ UNCHANGED <<mvars, results, task, qvars, watchdog, ping_period, last_ping, done,
                   thread_started, now, replaced, pool, interrupted, loc, hvars>>

\* a scan that also takes a delay of exactly twice the period for dead
DeadProcesses_AtLeast(t) ==
    Keys({p \in DOMAIN ping_period : t - last_ping[p] >= 2 * ping_period[p]})

DeadProcesses(t) ==
    Keys({p \in DOMAIN ping_period : t - last_ping[p] > 2 * ping_period[p]})

WatchdogCheck ==
    /\ pc["wd"] = "check"
    /\ wdloc' = [wdloc EXCEPT !.dead_processes = DeadProcesses(wdloc.now)]
    /\ declared_dead' = declared_dead \cup Elems(DeadProcesses(wdloc.now))
    /\ pc' = [pc EXCEPT !["wd"] = "unregister_dead"]
    /\ UNCHANGED <<mvars, results, task, qvars, watchdog, ping_period, last_ping, done,
                   thread_started, now, replaced, pool, interrupted, loc, handed, stored,
                   retrieved, earlier_finished,
                   blocked_at_term, prior, earlier>>

WatchdogUnregister ==
    /\ pc["wd"] = "unregister_dead"
    /\ wdloc.dead_processes # <<>>
    /\ Unregister("wd", Head(wdloc.dead_processes))
    /\ wdloc' = [wdloc EXCEPT !.dead_processes = Tail(@)]
    /\ UNCHANGED <<watchdog, ping_period, last_ping, done, thread_started, hvars>>

WatchdogSleep ==
    /\ pc["wd"] = "unregister_dead"
    /\ wdloc.dead_processes = <<>>
    /\ pc' = [pc EXCEPT !["wd"] = IF done THEN "exited" ELSE "sleep"]
    /\ wdloc' = [wdloc EXCEPT !.wake = now + wdloc.min_delay]
    /\ UNCHANGED <<mvars, results, task, qvars, watchdog, ping_period, last_ping, done,
                   thread_started, now, replaced, pool, interrupted, loc, hvars>>

\* time.sleep(min_delay) returns; the clock of the model stops at MaxTime
WatchdogWake ==
    /\ pc["wd"] = "sleep"
    /\ now >= wdloc.wake \/ now = MaxTime
    /\ pc' = [pc EXCEPT !["wd"] = "scan"]
    /\ wdloc' = NoScan
    /\ UNCHANGED <<mvars, results, task, qvars, watchdog, ping_period, last_ping, done,
                   thread_started, now, replaced, pool, interrupted, loc, hvars>>

\* ---- steps that continue a call in progress ----
Continue(th) ==
    \/ RegisterWatchdog(th)
    \/ UnregisterWatchdog(th)
    \/ AddEnqueue(th)
    \/ FirstTaskWake(th)
    \/ Checkout(th)
    \/ CheckoutRegister(th)
    \/ TaskWithId(th)
    \/ StoreFinish(th)
    \/ StoreRemove(th)
    \/ ReturnRemove(th)
    \/ ReturnAdd(th)
    \/ FirstResultWake(th)
    \/ ResultRead(th)
    \/ ResultDel(th)
    \/ TerminateRunning(th)
    \/ TerminateFinished(th)

\* ---- submission, checkout, storeResult and retrieval, any interleaving ----
PipeNext ==
    \E th \in Clients :
        \/ \E g \in Tags : AddTaskRequest(th, g, None)
        \/ AddEnqueue(th)
        \/ GetAnyTask(th, None)
        \/ \E g \in Tags : GetTaskWithTag(th, g, None)
        \/ FirstTaskWake(th)
        \/ Checkout(th)
        \/ \E t \in AllIds, r \in ResultValues : StoreResult(th, t, r)
        \/ TaskWithId(th)
        \/ StoreFinish(th)
        \/ StoreRemove(th)
        \/ GetAnyResult(th)
        \/ \E g \in Tags : GetResultWithTag(th, g)
        \/ FirstResultWake(th)
        \/ ResultRead(th)
        \/ ResultDel(th)

PipeSpec == Init /\ [][PipeNext]_vars

\* ---- every task-moving operation and the process registry, any interleaving ----
Next ==
    \E th \in Clients :
        \/ process_counter < RaceProcs /\ RegisterProcess(th, None)
        \/ \E p \in 0..(MaxProcs - 1) : UnregisterProcess(th, p)
        \/ UnregisterWatchdog(th)
        \/ id_counter < RaceTasks /\ AddTaskRequest(th, "a", None)
        \/ AddEnqueue(th)
        \/ \E p \in -1..(MaxProcs - 1) : GetAnyTask(th, p)
        \/ \E p \in -1..(MaxProcs - 1) : GetTaskWithTag(th, "a", p)
        \/ FirstTaskWake(th)
        \/ Checkout(th)
        \/ CheckoutRegister(th)
        \/ \E t \in AllIds : StoreResult(th, t, "r1")
        \/ \E t \in AllIds : StoreException(th, t)
        \/ TaskWithId(th)
        \/ StoreFinish(th)
        \/ StoreRemove(th)
        \/ \E t \in AllIds : ReturnTask(th, t)
        \/ ReturnRemove(th)
        \/ ReturnAdd(th)
        \/ GetAnyResult(th)
        \/ GetResultWithTag(th, "a")
        \/ FirstResultWake(th)
        \/ ResultRead(th)
        \/ ResultDel(th)

Spec == Init /\ [][Next]_vars

\* ---- terminate() against blocking calls, any interleaving ----
TermNext ==
    \E th \in Clients :
        \/ AddTaskRequest(th, "a", None)
        \/ AddEnqueue(th)
        \/ GetAnyTask(th, None)
        \/ GetTaskWithTag(th, "a", None)
        \/ FirstTaskWake(th)
        \/ Checkout(th)
        \/ \E t \in AllIds : StoreResult(th, t, "r1")
        \/ TaskWithId(th)
        \/ StoreFinish(th)
        \/ StoreRemove(th)
        \/ GetAnyResult(th)
        \/ GetResultWithTag(th, "a")
        \/ FirstResultWake(th)
        \/ ResultRead(th)
        \/ ResultDel(th)
        \/ Terminate(th)
        \/ TerminateRunning(th)
        \/ TerminateFinished(th)

TermSpec == Init /\ [][TermNext]_vars

\* ---- one caller: every call runs to its end before the next one starts ----
SeqNext ==
    \E th \in {"c1"} :
        \/ process_counter < SeqProcs /\ RegisterProcess(th, None)
        \/ \E p \in 0..(MaxProcs - 1) : UnregisterProcess(th, p)
        \/ UnregisterWatchdog(th)
        \/ id_counter < SeqTasks /\ \E g \in Tags : AddTaskRequest(th, g, None)
        \/ AddEnqueue(th)
        \/ \E p \in -1..(MaxProcs - 1) : GetAnyTask(th, p)
        \/ \E g \in Tags : \E p \in -1..(MaxProcs - 1) : GetTaskWithTag(th, g, p)
        \/ Checkout(th)
        \/ CheckoutRegister(th)
        \/ \E t \in AllIds : StoreResult(th, t, "r1")
        \/ \E t \in AllIds : StoreException(th, t)
        \/ TaskWithId(th)
        \/ StoreFinish(th)
        \/ StoreRemove(th)
        \/ \E t \in AllIds : ReturnTask(th, t)
        \/ ReturnRemove(th)
        \/ ReturnAdd(th)
        \/ GetAnyResult(th)
        \/ \E g \in Tags : GetResultWithTag(th, g)
        \/ ResultRead(th)
        \/ ResultDel(th)

SeqSpec == Init /\ [][SeqNext]_vars

\* ---- the Watchdog, the clock and workers that may stop calling ----
WatchNext ==
    \/ \E th \in Clients :
        \/ process_counter < RaceProcs /\ \E w \in Periods : RegisterProcess(th, w)
        \/ RegisterWatchdog(th)
        \/ \E p \in 0..(MaxProcs - 1) : p \notin declared_dead /\ Ping(th, p)
        \/ id_counter < RaceTasks /\ AddTaskRequest(th, "a", None)
        \/ AddEnqueue(th)
        \/ \E p \in 0..(MaxProcs - 1) : p \notin declared_dead /\ GetAnyTask(th, p)
        \/ FirstTaskWake(th)
        \/ Checkout(th)
        \/ CheckoutRegister(th)
        \/ \E t \in AllIds : StoreResult(th, t, "r1")
        \/ StoreFinish(th)
        \/ StoreRemove(th)
    \/ \E th \in Threads :
        \/ TaskWithId(th)
        \/ ReturnRemove(th)
        \/ ReturnAdd(th)
        \/ UnregisterWatchdog(th)
    \/ Tick
    \/ WatchdogScan
    \/ WatchdogCheck
    \/ WatchdogUnregister
    \/ WatchdogSleep
    \/ WatchdogWake

WatchSpec == Init /\ [][WatchNext]_vars

\* the process ids registerProcess has returned to its caller
ReturnedIds ==
    {p \in ProcessIds :
        \A th \in Clients : ~(loc[th].op = "registerProcess" /\ loc[th].process_id = p)}

\* registerProcess, ping and unregisterProcess calls beside the watchdog loop,
\* with no task in the manager; callers use the ids registerProcess returned
RegNext ==
    \/ \E th \in Clients :
        \/ \E w \in Periods \cup {None} : RegisterProcess(th, w)
        \/ RegisterWatchdog(th)
        \/ \E p \in ReturnedIds : Ping(th, p)
        \/ \E p \in ReturnedIds : UnregisterProcess(th, p)
    \/ \E th \in Threads : UnregisterWatchdog(th)
    \/ Tick
    \/ WatchdogScan
    \/ WatchdogCheck
    \/ WatchdogUnregister
    \/ WatchdogSleep
    \/ WatchdogWake

RegSpec == Init /\ [][RegNext]_vars

\* registerProcess calls and addTaskRequest calls that pass a process id
\* registerProcess returned, or none
ReqNext ==
    \E th \in Clients :
        \/ RegisterProcess(th, None)
        \/ \E g \in Tags : \E p \in ReturnedIds \cup {None} : AddTaskRequest(th, g, p)
        \/ AddEnqueue(th)

ReqSpec == Init /\ [][ReqNext]_vars

\* registerProcess calls that overlap, with and without a period; they take
\* less than a period, so that the watchdog loops find no process dead
LazyNext ==
    \E th \in Clients :
        \/ \E w \in Periods \cup {None} : RegisterProcess(th, w)
        \/ WatchdogIsNone(th)
        \/ NewWatchdog(th)
        \/ WatchdogRegisterProcess(th)
        \/ WatchdogStartTest(th)
        \/ WatchdogStartThread(th)
        \/ WatchdogStartFlag(th)

LazySpec == Init /\ [][LazyNext]_vars

\* the watchdog loop has found process_id dead and has called unregisterProcess
\* for it
WatchdogUnregistered(process_id) ==
    process_id \in declared_dead /\ ~Contains(wdloc.dead_processes, process_id)

\* processes that register with a period, ping while registered and call
\* unregisterProcess for their own id once, beside the watchdog loop: a
\* process that the watchdog has unregistered does not know and still calls
DeadNext ==
    \/ \E th \in Clients :
        \/ \E w \in Periods : RegisterProcess(th, w)
        \/ RegisterWatchdog(th)
        \/ \E p \in ReturnedIds : Contains(active_processes, p) /\ Ping(th, p)
        \/ \E p \in ReturnedIds :
              /\ Contains(active_processes, p) \/ WatchdogUnregistered(p)
              /\ UnregisterProcess(th, p)
    \/ \E th \in Threads : UnregisterWatchdog(th)
    \/ Tick
    \/ WatchdogScan
    \/ WatchdogCheck
    \/ WatchdogUnregister
    \/ WatchdogSleep
    \/ WatchdogWake

DeadSpec == Init /\ [][DeadNext]_vars

\* processes that register with a period and ping, the watchdog loop, and
\* Watchdog.terminate()
StopNext ==
    \/ \E th \in Clients :
        \/ \E w \in Periods : RegisterProcess(th, w)
        \/ RegisterWatchdog(th)
        \/ \E p \in ReturnedIds : Ping(th, p)
        \/ WatchdogTerminate(th)
    \/ UnregisterWatchdog("wd")
    \/ Tick
    \/ WatchdogScan
    \/ WatchdogCheck
    \/ WatchdogUnregister
    \/ WatchdogSleep
    \/ WatchdogWake

StopSpec == Init /\ [][StopNext]_vars

\* the watchdog thread and the threads serving calls keep running; time passes
StopFairness ==
    /\ \A th \in Threads : WF_vars(Continue(th))
    /\ WF_vars(Tick)
    /\ WF_vars(WatchdogScan)
    /\ WF_vars(WatchdogCheck)
    /\ WF_vars(WatchdogUnregister)
    /\ WF_vars(WatchdogSleep)
    /\ WF_vars(WatchdogWake)

FairStopSpec == StopSpec /\ StopFairness

\* every thread that can run is scheduled, and the clock advances; whether a
\* client makes another call is up to the client
WatchFairness ==
    /\ \A th \in Threads : WF_vars(Continue(th))
    /\ WF_vars(Tick)
    /\ WF_vars(WatchdogScan)
    /\ WF_vars(WatchdogCheck)
    /\ WF_vars(WatchdogUnregister)
    /\ WF_vars(WatchdogSleep)
    /\ WF_vars(WatchdogWake)

FairWatchSpec == WatchSpec /\ WatchFairness

\* ---- where a task is ----
Count(q, t) == Cardinality({i \in 1..Len(q.tasks) : q.tasks[i] = t})

InQueue(q, t) == t \in Elems(q.tasks)

\* the task object is in the hands of a call that has taken it out of a queue
\* and has not yet put it into the next one
HeldBy(th, t) ==
    /\ loc[th].id = t
    /\ pc[th] \in {"checkout", "store_finish", "return_remove", "return_add"}

Submitted == DOMAIN task

\* ---- MasterProcess.start and SlaveProcess.start on one manager ----
\* the master is the first process registered, the slave the second
MasterId == 0

SlaveId == MasterId + 1

Master == "c1"

Slave == "c2"

\* the tags the slave has a do_<tag> method for
HandledTags == {"a"}

SlaveRegistered == Contains(active_processes, SlaveId)

\* the task the last getAnyTask call of the slave returned
SlaveTask == tasks_by_process[SlaveId + 1][1]

SlaveHoldsTask ==
    /\ SlaveId \in ProcessIds
    /\ tasks_by_process[SlaveId + 1] # <<>>

\* MasterProcess.__init__, then run() as the subclass writes it: task requests
\* and result retrievals, until start() calls terminate() in its finally clause
MasterStep ==
    \/ process_counter = MasterId /\ RegisterProcess(Master, None)
    \/ /\ MasterId \in ProcessIds
       /\ ~waiting_tasks.terminate
       /\ \/ id_counter < MaxTasks /\ \E g \in Tags : AddTaskRequest(Master, g, None)
          \/ GetAnyResult(Master)
          \/ Terminate(Master)
    \/ AddEnqueue(Master)
    \/ FirstResultWake(Master)
    \/ ResultRead(Master)
    \/ ResultDel(Master)
    \/ TerminateRunning(Master)
    \/ TerminateFinished(Master)

\* a slave that answers a task it has no method for with an exception
Report_StoresUnknown(t) ==
    \/ StoreResult(Slave, t, "r1")
    \/ StoreException(Slave, t)

\* the call SlaveProcess.start makes for the task t that getAnyTask returned:
\* returnTask when getattr finds no do_<tag> or the method was interrupted,
\* storeException when the method raised, storeResult when it returned
Report(t) ==
    IF task[t].tag \notin HandledTags \/ interrupted
    THEN ReturnTask(Slave, t)
    ELSE \/ StoreResult(Slave, t, "r1")
         \/ StoreException(Slave, t)

\* KeyboardInterrupt in the slave while the method of the task runs
KeyboardInterrupt ==
    /\ ~interrupted
    /\ pc[Slave] = "idle"
    /\ SlaveHoldsTask
    /\ task[SlaveTask].tag \in HandledTags
    /\ interrupted' = TRUE
    /\ UNCHANGED <<mvars, results, task, qvars, wvars, replaced, now, pc, loc, hvars, pool>>

\* SlaveProcess.start: registerProcess(watchdog_period), then the loop over
\* getAnyTask and the report for the task; a getAnyTask that raises
\* TaskManagerTermination (terminate set and nothing waiting) leaves the loop
\* for unregisterProcess, and so does the handler of KeyboardInterrupt
SlaveStep ==
    \/ process_counter = SlaveId /\ \E w \in Periods : RegisterProcess(Slave, w)
    \/ RegisterWatchdog(Slave)
    \/ /\ SlaveRegistered
       /\ ~SlaveHoldsTask
       /\ IF interrupted \/ (waiting_tasks.terminate /\ waiting_tasks.tasks = <<>>)
          THEN UnregisterProcess(Slave, SlaveId)
          ELSE GetAnyTask(Slave, SlaveId)
    \/ FirstTaskWake(Slave)
    \/ Checkout(Slave)
    \/ CheckoutRegister(Slave)
    \/ SlaveHoldsTask /\ Report(SlaveTask)
    \/ TaskWithId(Slave)
    \/ StoreFinish(Slave)
    \/ StoreRemove(Slave)
    \/ ReturnRemove(Slave)
    \/ ReturnAdd(Slave)
    \/ UnregisterWatchdog(Slave)

\* the watchdog loop is left out: a live slave pings within its period, so the
\* loop never finds it dead
ShutdownNext == MasterStep \/ SlaveStep \/ KeyboardInterrupt

ShutdownSpec == Init /\ [][ShutdownNext]_vars

\* the slave's thread keeps running, and the manager serves the master's calls
FairShutdownSpec == ShutdownSpec /\ WF_vars(SlaveStep) /\ WF_vars(Continue(Master))

\* ==== Scientific.Threading.TaskManager ====
\* All shared state is read and written between acquire and release of
\* self.lock, the lock of the three conditions: a step is one such region.  A
\* thread inside Condition.wait() stays at a "..._wait" position until a notify
\* moves it on; the terminating entry None of waiting_tasks is -1.

\* TaskManager(nthreads): the scheduler thread is started by the constructor
PoolInit ==
    /\ ManagerInit
    /\ nthreads \in 1..MaxThreads
    /\ pool_waiting_tasks = <<>>
    /\ pool_running_tasks = <<>>
    /\ pool_pc = [th \in PoolThreads |-> IF th = "scheduler" THEN "avail" ELSE "idle"]
    /\ task_pc = [t \in PoolTasks |-> "none"]
    /\ calls = [t \in PoolTasks |-> 0]

\* Condition.notify(): one of the threads waiting at position w, if there is
\* one, goes on to position g; f2 is the result
Notify(f, w, g, f2) ==
    IF \E th \in PoolThreads : f[th] = w
    THEN \E th \in PoolThreads : f[th] = w /\ f2 = [f EXCEPT ![th] = g]
    ELSE f2 = f

\* can_run.notifyAll(): the scheduler re-tests its loop, terminate() goes on
NotifyAllCanRun(f) ==
    [th \in PoolThreads |->
        IF f[th] = "run_wait" THEN "run"
        ELSE IF f[th] = "term_wait" THEN "term_woken"
        ELSE f[th]]

TerminateCalled ==
    \E th \in Feeders : pool_pc[th] \in {"join", "term_loop", "term_wait", "term_woken", "returned"}

\* the Task objects created so far, and the number of the next one
CreatedTasks == {t \in PoolTasks : task_pc[t] # "none"}
InRunTask == {th \in Feeders : pool_pc[th] \in {"submit_wait", "submit_append"}}

\* ---- TaskManager.runTask ----
RunTask(th) ==
    /\ pool_pc[th] = "idle"
    /\ ~TerminateCalled
    /\ Cardinality(CreatedTasks) + Cardinality(InRunTask) < MaxPoolTasks
    /\ pool_pc' = [pool_pc EXCEPT ![th] =
                      IF Len(pool_waiting_tasks) >= nthreads
                      THEN "submit_wait" ELSE "submit_append"]
    /\ UNCHANGED <<nthreads, pool_waiting_tasks, pool_running_tasks, task_pc, calls, manager>>

RunTaskAppend(th) ==
    /\ pool_pc[th] = "submit_append"
    /\ LET t == Cardinality(CreatedTasks) IN
          /\ task_pc' = [task_pc EXCEPT ![t] = "waiting"]
          /\ pool_waiting_tasks' = Append(pool_waiting_tasks, t)
    /\ Notify([pool_pc EXCEPT ![th] = "idle"], "avail_wait", "run", pool_pc')
    /\ UNCHANGED <<nthreads, pool_running_tasks, calls, manager>>

\* ---- TaskManager.terminate ----
\* the test of "if self.running_tasks" and of "done"
NoneRunning_Always == TRUE

NoneRunning == pool_running_tasks = <<>>

\* called by a feeding thread once the feeding is over
PoolTerminate(th) ==
    /\ pool_pc[th] = "idle"
    /\ ~TerminateCalled
    /\ InRunTask = {}
    /\ pool_waiting_tasks' = Append(pool_waiting_tasks, None)
    /\ Notify([pool_pc EXCEPT ![th] = "join"], "avail_wait", "run", pool_pc')
    /\ UNCHANGED <<nthreads, pool_running_tasks, task_pc, calls, manager>>

TerminateJoin(th) ==
    /\ pool_pc[th] = "join"
    /\ pool_pc["scheduler"] = "exited"
    /\ pool_pc' = [pool_pc EXCEPT ![th] = "term_loop"]
    /\ UNCHANGED <<nthreads, pool_waiting_tasks, pool_running_tasks, task_pc, calls, manager>>

TerminateLoop(th) ==
    /\ pool_pc[th] = "term_loop"
    /\ pool_pc' = [pool_pc EXCEPT ![th] = IF NoneRunning THEN "returned" ELSE "term_wait"]
    /\ UNCHANGED <<nthreads, pool_waiting_tasks, pool_running_tasks, task_pc, calls, manager>>

TerminateWoken(th) ==
    /\ pool_pc[th] = "term_woken"
    /\ pool_pc' = [pool_pc EXCEPT ![th] = IF NoneRunning THEN "returned" ELSE "term_loop"]
    /\ UNCHANGED <<nthreads, pool_waiting_tasks, pool_running_tasks, task_pc, calls, manager>>

\* ---- TaskManager._scheduler ----
SchedulerAvail ==
    /\ pool_pc["scheduler"] = "avail"
    /\ pool_pc' = [pool_pc EXCEPT !["scheduler"] =
                      IF pool_waiting_tasks = <<>> THEN "avail_wait" ELSE "run"]
    /\ UNCHANGED <<nthreads, pool_waiting_tasks, pool_running_tasks, task_pc, calls, manager>>

\* the test of "while len(self.running_tasks) >= self.nthreads"
SlotFree_Always == TRUE

SlotFree == Len(pool_running_tasks) < nthreads

SchedulerRun ==
    /\ pool_pc["scheduler"] = "run"
    /\ IF ~SlotFree
       THEN /\ pool_pc' = [pool_pc EXCEPT !["scheduler"] = "run_wait"]
            /\ UNCHANGED <<pool_waiting_tasks, pool_running_tasks, task_pc>>
       ELSE LET t == Head(pool_waiting_tasks) IN
            /\ pool_waiting_tasks' = Tail(pool_waiting_tasks)
            /\ IF t # None
               THEN /\ pool_running_tasks' = Append(pool_running_tasks, t)
                    /\ task_pc' = [task_pc EXCEPT ![t] = "started"]
               ELSE UNCHANGED <<pool_running_tasks, task_pc>>
            /\ Notify([pool_pc EXCEPT !["scheduler"] = IF t = None THEN "exited" ELSE "avail"],
                      "submit_wait", "submit_append", pool_pc')
    /\ UNCHANGED <<nthreads, calls, manager>>

\* ---- Task.run ----
\* apply(function, args): the function returns or raises; when it raises, the
\* thread ends without calling removeTask
TaskRun(t, raises) ==
    /\ task_pc[t] = "started"
    /\ calls' = [calls EXCEPT ![t] = @ + 1]
    /\ task_pc' = [task_pc EXCEPT ![t] = IF raises THEN "raised" ELSE "called"]
    /\ UNCHANGED <<nthreads, pool_waiting_tasks, pool_running_tasks, pool_pc, manager>>

\* ---- TaskManager.removeTask ----
RemoveTask(t) ==
    /\ task_pc[t] = "called"
    /\ pool_running_tasks' = ListRemove(pool_running_tasks, t)
    /\ pool_pc' = NotifyAllCanRun(pool_pc)
    /\ task_pc' = [task_pc EXCEPT ![t] = "finished"]
    /\ UNCHANGED <<nthreads, pool_waiting_tasks, calls, manager>>

PoolNext ==
    \/ \E th \in Feeders :
        \/ RunTask(th)
        \/ RunTaskAppend(th)
        \/ PoolTerminate(th)
        \/ TerminateJoin(th)
        \/ TerminateLoop(th)
        \/ TerminateWoken(th)
    \/ SchedulerAvail
    \/ SchedulerRun
    \/ \E t \in PoolTasks :
        \/ \E raises \in BOOLEAN : TaskRun(t, raises)
        \/ RemoveTask(t)

PoolSpec == PoolInit /\ [][PoolNext]_vars

\* ---- C1 ----
\* C1: every retrieval hands out a submitted task id, no id is handed out twice,
\* each is handed out with the tag it was submitted with and with a result that
\* storeResult stored for it, and no submitted id is missing: until it is
\* retrieved it is in a queue or in the hands of a call in progress.
C1_RetrievedExactlyOnce ==
    \A t \in AllIds :
        /\ Len(retrieved[t]) <= 1
        /\ \A i \in 1..Len(retrieved[t]) :
              /\ t \in Submitted
              /\ retrieved[t][i].kind = "return"
              /\ retrieved[t][i].tag = t[1]
              /\ retrieved[t][i].payload \in stored[t]
        /\ (t \in Submitted /\ retrieved[t] = <<>>) =>
              \/ InQueue(waiting_tasks, t) \/ InQueue(running_tasks, t)
              \/ InQueue(finished_tasks, t)
              \/ \E th \in Clients : HeldBy(th, t)
              \/ \E th \in Clients : loc[th].id = t /\ pc[th] \in {"result_read", "result_del"}

\* all MaxTasks tasks were submitted, checked out, completed and retrieved
C1_Witness ==
    /\ Cardinality(Submitted) = MaxTasks
    /\ \A t \in Submitted : Len(retrieved[t]) = 1
    /\ \E t \in Submitted : t[1] = "a"
    /\ \E t \in Submitted : t[1] = "b"

\* ---- C2 ----
\* C2: a task checked out to a process that the watchdog has declared dead does
\* not stay in running forever: it re-enters waiting or reaches finished.
C2_NoTaskLost ==
    \A t \in AllIds : \A p \in 0..(MaxProcs - 1) :
        (p \in declared_dead /\ InQueue(running_tasks, t) /\ t \in Submitted
            /\ task[t].handling_processor = p)
        ~> (InQueue(waiting_tasks, t) \/ InQueue(finished_tasks, t))

\* ---- C3 ----
Stale(p) ==
    /\ p \in DOMAIN ping_period
    /\ p \in DOMAIN last_ping
    /\ now - last_ping[p] > 2 * ping_period[p]

\* C3: a process that has sent no ping for more than twice its period is
\* unregistered by the watchdog loop, unless it pings again first: the loop's
\* unregisterProcess call runs to its end, where the process, already out of the
\* registry and with its tasks requeued, leaves the watchdog maps.
C3_DeadUnregistered ==
    \A p \in 0..(MaxProcs - 1) :
        Stale(p) ~> \/ p \notin DOMAIN ping_period /\ ~Contains(active_processes, p)
                    \/ p \in DOMAIN last_ping /\ ~Stale(p)

\* ---- C4 ----
\* the steps of unregisterProcess move one task each: taskWithId takes exactly the
\* task out of running, and the requeue appends exactly it to waiting
C4_Moves ==
    \A th \in Clients :
        /\ (pc[th] = "idle" /\ loc'[th].op = "unregisterProcess") =>
              /\ loc'[th].tasks = tasks_by_process[loc'[th].process_id + 1]
              /\ \A i \in 1..Len(loc'[th].tasks) : InQueue(running_tasks, loc'[th].tasks[i])
        /\ (loc[th].op = "unregisterProcess" /\ pc[th] = "taskWithId" /\ pc'[th] # pc[th]) =>
              /\ Count(running_tasks, loc[th].id) = 1
              /\ running_tasks'.tasks = ListRemove(running_tasks.tasks, loc[th].id)
              /\ waiting_tasks'.tasks = waiting_tasks.tasks
              /\ finished_tasks'.tasks = finished_tasks.tasks
        /\ (loc[th].op = "unregisterProcess" /\ pc[th] = "return_add" /\ pc'[th] # pc[th]) =>
              /\ Count(waiting_tasks, loc[th].id) = 0
              /\ Len(waiting_tasks'.tasks) = Len(waiting_tasks.tasks) + 1
              /\ Elems(waiting_tasks'.tasks) = Elems(waiting_tasks.tasks) \cup {loc[th].id}
              /\ running_tasks'.tasks = running_tasks.tasks
              /\ finished_tasks'.tasks = finished_tasks.tasks

\* when the loop of unregisterProcess(p) is over, each of the N tasks p held is in
\* waiting, in no other queue, with handling_processor None, and p holds nothing
C4_End ==
    \A th \in Clients :
        (pc[th] = "unregister_watchdog" /\ loc[th].op = "unregisterProcess") =>
            /\ tasks_by_process[loc[th].process_id + 1] = <<>>
            /\ \A i \in 1..Len(loc[th].tasks) :
                  /\ Count(waiting_tasks, loc[th].tasks[i]) = 1
                  /\ Count(running_tasks, loc[th].tasks[i]) = 0
                  /\ Count(finished_tasks, loc[th].tasks[i]) = 0
                  /\ task[loc[th].tasks[i]].handling_processor = None

\* C4: unregisterProcess(p), run without interleaving of other calls, for a process
\* that holds N running tasks moves exactly those N tasks from running to waiting,
\* each with handling_processor reset to None, and leaves p's held-task list empty.
C4_UnregisterRequeues == [][C4_Moves]_vars /\ []C4_End

\* unregisterProcess has requeued the two tasks its process held
C4_Witness ==
    \E th \in Clients :
        /\ pc[th] = "unregister_watchdog"
        /\ loc[th].op = "unregisterProcess"
        /\ Len(loc[th].tasks) = 2

\* ---- C5 ----
\* C5: getAnyTask never delivers a task that was already waiting when another task
\* was returned, while that returned task is still waiting (the requeued task is
\* redelivered first).
C5_RequeuedFirst ==
    [][\A th \in Clients :
          (pc[th] # "checkout" /\ pc'[th] = "checkout" /\ loc'[th].op = "getAnyTask") =>
              ~\E x \in AllIds : InQueue(waiting_tasks, x) /\ loc'[th].id \in prior[x]]_vars

\* ---- C6 ----
\* C6: a getAnyTask, getTaskWithTag, getAnyResult or getResultWithTag call that was
\* blocked when terminate() was called is never handed a task or a result.
C6_BlockedGetsTerminated ==
    [][\A th \in blocked_at_term : pc'[th] \notin {"checkout", "result_read"}]_vars

\* ---- C7 ----
Terminated ==
    waiting_tasks.terminate /\ running_tasks.terminate /\ finished_tasks.terminate

\* C7: once terminate() has returned, a get call that starts takes nothing from a
\* queue and does not block: it raises Terminated at once.
C7_AfterTerminate ==
    [][Terminated =>
          \A th \in Clients :
              pc[th] = "idle" =>
                  pc'[th] \notin {"checkout", "result_read", "firstTask", "firstResult"}]_vars

\* ---- C8 ----
\* the stage of a task: the queue it is in, or the move a call is making with it
Stage(t) ==
    IF InQueue(waiting_tasks, t) THEN "WAITING"
    ELSE IF InQueue(running_tasks, t) THEN "RUNNING"
    ELSE IF InQueue(finished_tasks, t) THEN "FINISHED"
    ELSE IF \E th \in Threads : loc[th].id = t /\ pc[th] = "checkout" THEN "checkout"
    ELSE IF \E th \in Threads : loc[th].id = t /\ pc[th] = "store_finish" THEN "store"
    ELSE IF \E th \in Threads : loc[th].id = t /\ pc[th] \in {"return_remove", "return_add"}
         THEN "requeue"
    ELSE IF t \in Submitted THEN "retrieved"
    ELSE "new"

TaskEdges ==
    {<<"new", "WAITING">>,
     <<"WAITING", "checkout">>, <<"checkout", "RUNNING">>,
     <<"RUNNING", "store">>, <<"store", "FINISHED">>,
     <<"RUNNING", "requeue">>, <<"requeue", "WAITING">>,
     <<"FINISHED", "retrieved">>}

\* C8: a task changes queue only along WAITING -> RUNNING (checkout),
\* RUNNING -> FINISHED (storeResult, storeException) and RUNNING -> WAITING
\* (returnTask, unregisterProcess); it leaves FINISHED only by retrieval, and a
\* retrieved task is in no queue ever after.
C8_TaskEdges ==
    [][\A t \in AllIds : Stage(t)' = Stage(t) \/ <<Stage(t), Stage(t)'>> \in TaskEdges]_vars

\* a task that was requeued by unregisterProcess, checked out again, finished and
\* retrieved
C8_Witness ==
    \E t \in Submitted : Len(retrieved[t]) = 1 /\ handed[t] > 0 /\ Stage(t) = "retrieved"

\* ---- C9 ----
\* C9: between calls, a task has handling_processor = p if and only if it is in
\* tasks_by_process[p].
C9_HandlingIffHeld ==
    (\A th \in Clients : pc[th] = "idle") =>
        \A t \in Submitted : \A p \in ProcessIds :
            task[t].handling_processor = p <=> Contains(tasks_by_process[p + 1], t)

\* ---- C10 ----
\* C10: each task is in at most one of the waiting, running and finished queues,
\* and at most once in that queue's primary list.
C10_AtMostOneQueue ==
    \A t \in AllIds :
        Count(waiting_tasks, t) + Count(running_tasks, t) + Count(finished_tasks, t) <= 1

\* a task is finished while the report of another checkout of it is outstanding:
\* it was requeued by unregisterProcess and checked out twice
C10_Witness ==
    \E t \in Submitted : InQueue(finished_tasks, t) /\ handed[t] > 0

\* ---- C11 ----
NoDuplicates(l) == Cardinality(Elems(l)) = Len(l)

IndexesAgree(q) ==
    /\ NoDuplicates(q.tasks)
    /\ Elems(q.tasks) = q.tasks_by_id
    /\ \A g \in Tags :
          /\ NoDuplicates(q.tasks_by_tag[g])
          /\ Elems(q.tasks_by_tag[g]) = {t \in Elems(q.tasks) : task[t].tag = g}

\* C11: in each TaskQueue the primary list, the by-id index and the by-tag lists
\* hold the same tasks, each once and under its own id and tag, whenever no add
\* or removal is inside the queue's critical section.
C11_IndexesAgree ==
    /\ IndexesAgree(waiting_tasks)
    /\ IndexesAgree(running_tasks)
    /\ IndexesAgree(finished_tasks)

\* two waiting tasks of one tag, the later added one first in the primary list
\* and second in the by-tag list (the other one was requeued in front)
C11_Witness ==
    /\ Len(waiting_tasks.tasks) = 2
    /\ waiting_tasks.tasks_by_tag["a"] = <<waiting_tasks.tasks[2], waiting_tasks.tasks[1]>>

\* ---- C12 ----
\* no registerProcess or unregisterProcess call is in progress
RegistryQuiet ==
    \A th \in Threads : loc[th].op \notin {"registerProcess", "unregisterProcess"}

\* C12: between calls, every process id with a ping_period or a last_ping entry
\* in the Watchdog is in active_processes.
C12_WatchdogStateRegistered ==
    RegistryQuiet =>
        \A p \in DOMAIN ping_period \cup DOMAIN last_ping : Contains(active_processes, p)

\* ---- C13 ----
\* the calls that may not suspend their caller (ping and numberOfTasks are one step)
NonBlockingOps ==
    {"registerProcess", "unregisterProcess", "addTaskRequest", "storeResult",
     "storeException", "returnTask", "terminate"}

\* C13: a registerProcess, unregisterProcess, addTaskRequest, storeResult,
\* storeException, returnTask or terminate call in progress returns, whatever the
\* other callers do or leave undone.
C13_NonBlockingReturn ==
    \A th \in Threads :
        (loc[th].op \in NonBlockingOps) ~> (loc[th].op \notin NonBlockingOps)

\* ---- C14 ----
\* C14: a retrieval raises TaskRaisedException exactly for a task whose stored
\* payload is the (exception, traceback) pair of a storeException call, and
\* carries that pair, the task's id and its tag; a plain return carries a result
\* stored by storeResult.
C14_ExceptionRoundTrip ==
    \A t \in AllIds : \A i \in 1..Len(retrieved[t]) :
        /\ retrieved[t][i].tag = t[1]
        /\ retrieved[t][i].kind = "TaskRaisedException"
              <=> retrieved[t][i].payload = ExceptionPayload
        /\ retrieved[t][i].kind = "return"
              <=> \E r \in ResultValues : retrieved[t][i].payload = <<r>>

\* ---- C15 ----
\* C15: once the result of a task has been handed out by getAnyResult or
\* getResultWithTag, the results map holds no entry for that task id.
C15_NoOrphanResult ==
    \A t \in AllIds : retrieved[t] # <<>> => t \notin DOMAIN results

\* ---- C16 ----
\* C16: every task in the waiting queue or in the finished queue has
\* handling_processor None.
C16_HandlingOnlyWhileRunning ==
    \A t \in Submitted :
        (InQueue(waiting_tasks, t) \/ InQueue(finished_tasks, t)) =>
            task[t].handling_processor = None

\* ---- C17 ----
\* C17: every task in the finished queue has its completed flag set and a payload
\* under its id in the results map, put there by a storeResult or storeException
\* call for it; a retrieval in progress finds that payload, and every payload
\* handed out was stored for that task.
C17_FinishedHasResult ==
    /\ \A t \in Submitted :
          InQueue(finished_tasks, t) =>
              /\ task[t].completed \in {"True", "False"}
              /\ t \in DOMAIN results
              /\ results[t] \in stored[t]
    /\ \A th \in Clients :
          pc[th] = "result_read" => loc[th].id \in DOMAIN results
    /\ \A t \in AllIds : \A i \in 1..Len(retrieved[t]) :
          retrieved[t][i].payload \in stored[t]

\* a finished task for which both a result and an exception were stored
C17_Witness ==
    \E t \in Submitted :
        /\ InQueue(finished_tasks, t)
        /\ Cardinality(stored[t]) = 2

\* ---- C18 ----
\* C18: the task handed out by getTaskWithTag(tag) and the task whose result is
\* handed out by getResultWithTag(tag) have the requested tag.
C18_TagMatches ==
    \A th \in Clients :
        /\ (loc[th].op = "getTaskWithTag" /\ pc[th] \in {"checkout", "checkout_register"})
              => task[loc[th].id].tag = loc[th].tag
        /\ (loc[th].op = "getResultWithTag" /\ pc[th] \in {"result_read", "result_del"})
              => task[loc[th].id].tag = loc[th].tag

\* getTaskWithTag("b") has taken the "b" task that was added after an "a" task,
\* which is still at the head of the waiting queue
C18_Witness ==
    \E th \in Clients :
        /\ loc[th].op = "getTaskWithTag"
        /\ pc[th] = "checkout"
        /\ loc[th].tag = "b"
        /\ loc[th].id = <<"b", 1>>
        /\ waiting_tasks.tasks = << <<"a", 0>> >>

\* ---- C19 ----
\* C19: when storeResult(id, r) or storeException(id, e, tb) returns, the task is
\* in finished and not in running, completed is true or false according to the
\* call, the payload of the call is in the results map under id, and the task is
\* in no process's held-task list.
C19_StorePostcondition ==
    [][\A th \in Clients :
          (pc[th] = "store_remove" /\ pc'[th] = "idle") =>
              /\ Count(finished_tasks', loc[th].id) = 1
              /\ Count(running_tasks', loc[th].id) = 0
              /\ Count(waiting_tasks', loc[th].id) = 0
              /\ task'[loc[th].id].completed =
                     IF loc[th].op = "storeResult" THEN "True" ELSE "False"
              /\ loc[th].id \in DOMAIN results'
              /\ results'[loc[th].id] = loc[th].payload
              /\ \A p \in ProcessIds : ~Contains(tasks_by_process'[p + 1], loc[th].id)]_vars

\* storeException has returned for a task that process 0 held
C19_Witness ==
    \E t \in Submitted :
        /\ \A th \in Clients : pc[th] = "idle"
        /\ InQueue(finished_tasks, t)
        /\ task[t].completed = "False"
        /\ task[t].handling_processor = 0
        /\ Contains(active_processes, 0)

\* ---- C20 ----
\* C20: once the master has called terminate(), the slave receives
\* TaskManagerTermination from getAnyTask and unregisters, so that
\* numberOfActiveProcesses() drops to 1 and the master's polling loop ends.
C20_ShutdownCompletes ==
    (Terminated /\ SlaveRegistered) ~> (Len(active_processes) <= 1)

\* ---- C21 ----
\* C21: the watchdog loop finds a process dead only if, when it compares, the
\* process is monitored and its last ping is more than twice its period old, and
\* it calls unregisterProcess only for a process that scan found dead.
C21_DeadOnlyIfStale ==
    [][/\ \A p \in declared_dead' \ declared_dead :
              /\ p \in DOMAIN ping_period
              /\ now - last_ping[p] > 2 * ping_period[p]
       /\ pc["wd"] = "check" =>
              \A p \in DOMAIN ping_period :
                  now - last_ping[p] <= 2 * ping_period[p]
                      => ~Contains(wdloc'.dead_processes, p)
       /\ (pc["wd"] = "unregister_dead" /\ loc'["wd"].op = "unregisterProcess") =>
              /\ loc'["wd"].process_id \in declared_dead
              /\ loc'["wd"].process_id = Head(wdloc.dead_processes)]_vars

\* the loop has found a process dead and is about to call unregisterProcess for it
C21_Witness ==
    /\ declared_dead # {}
    /\ pc["wd"] = "unregister_dead"
    /\ wdloc.dead_processes # <<>>
    /\ now = MaxTime

\* ---- C22 ----
\* C22: a watchdog loop that is in the sleep that ends its cycle when
\* Watchdog.terminate() has been called starts no further cycle: it finds no
\* further process dead.
C22_NoCycleAfterTerminate ==
    \A p \in 0..(MaxProcs - 1) :
        []((done /\ pc["wd"] = "sleep" /\ p \notin declared_dead)
              => [](p \notin declared_dead))

\* ---- C23 ----
\* every id issued so far is below the counter, no id is registered twice, and
\* there is one held-task list per issued id
C23_Slots ==
    /\ Len(tasks_by_process) = process_counter
    /\ NoDuplicates(active_processes)
    /\ \A i \in 1..Len(active_processes) : active_processes[i] \in ProcessIds
    /\ \A th \in Clients : loc[th].op = "registerProcess" => loc[th].process_id \in ProcessIds
    /\ \A th, o \in Clients :
          (th # o /\ loc[th].op = "registerProcess" /\ loc[o].op = "registerProcess")
              => loc[th].process_id # loc[o].process_id

\* a registerProcess call takes the value of the counter for the new id and
\* increases the counter by one; nothing else changes the counter
C23_Issue ==
    process_counter' # process_counter =>
        /\ process_counter' = process_counter + 1
        /\ active_processes' = Append(active_processes, process_counter)
        /\ tasks_by_process' = Append(tasks_by_process, <<>>)

\* C23: registerProcess issues the ids 0, 1, 2, ... in sequence, never one
\* twice, also when calls overlap and after processes have unregistered, and
\* every issued id has its own held-task list.
C23_SequentialIds == []C23_Slots /\ [][C23_Issue]_vars

\* every id but the last one issued has been unregistered
C23_Witness ==
    /\ process_counter = MaxProcs
    /\ active_processes = <<MaxProcs - 1>>

\* ---- C24 ----
\* the task ids addTaskRequest has formed: those of the tasks created and those of
\* the calls between the lock section and the creation of the task
IssuedIds ==
    Submitted \cup {loc[th].id : th \in {o \in Clients : pc[o] = "add_enqueue"}}

C24_Distinct ==
    /\ Cardinality(IssuedIds) = id_counter
    /\ \A t \in IssuedIds : t[2] < id_counter
    /\ \A t, u \in IssuedIds : t # u => t[2] # u[2]
    /\ \A th \in Clients :
          pc[th] = "add_enqueue" => loc[th].id = <<loc[th].tag, loc[th].id[2]>>

\* C24: the ids addTaskRequest returns are pairwise distinct, also for calls that
\* overlap, with equal or different tags: each is the tag and the value of a
\* counter that only grows, by one per call, so that no value is used twice.
C24_DistinctTaskIds ==
    []C24_Distinct /\ [][id_counter' # id_counter => id_counter' = id_counter + 1]_vars

\* two addTaskRequest calls with the same tag are past the lock section at once
C24_Witness ==
    /\ pc["c1"] = "add_enqueue"
    /\ pc["c2"] = "add_enqueue"
    /\ loc["c1"].tag = loc["c2"].tag

\* ---- C25 ----
\* C25: when addTaskRequest(tag, parameters, p) returns, the task it created is
\* waiting and its requesting_processor is p, for every process id p that
\* registerProcess returned, the first one included; it is None only when the
\* call passed no process id.
C25_RequestingProcess ==
    [][\A th \in Clients :
          (pc[th] = "add_enqueue" /\ pc'[th] = "idle") =>
              /\ Contains(waiting_tasks'.tasks, loc[th].id)
              /\ task'[loc[th].id].requesting_processor = loc[th].process_id]_vars

\* ---- C26 ----
\* the compute tasks whose thread was started and has not finished
LiveTasks == {t \in PoolTasks : task_pc[t] \in {"started", "called"}}

\* C26: in every reachable state of the thread-pool task manager, running_tasks
\* holds at most nthreads tasks, and it holds every compute task that was
\* started and has not finished, so at most nthreads of them exist at a time.
C26_AtMostNThreads ==
    /\ Len(pool_running_tasks) <= nthreads
    /\ \A t \in LiveTasks : Contains(pool_running_tasks, t)
    /\ Cardinality(LiveTasks) <= nthreads

\* all nthreads slots are taken by live tasks and the scheduler waits for one
\* with a further task to start
C26_Witness ==
    /\ Cardinality(LiveTasks) = nthreads
    /\ pool_pc["scheduler"] = "run_wait"
    /\ pool_waiting_tasks # <<>>
    /\ Head(pool_waiting_tasks) # None

C28_StaysOperational == lock = "free" /\ pc["wd"] # "dead"

\* ---- C29 ----
\* C29: under overlapping registerProcess calls with a period, one Watchdog
\* instance at most is ever created, start() is not called on a loop thread
\* that runs already, and every process that Watchdog.registerProcess has
\* entered is in the ping_period of the instance the manager refers to.
C29_OneWatchdog ==
    /\ Instances <= 1
    /\ \A th \in Clients :
          pc[th] = "watchdog_start" =>
              ~(IF OnCurrent(th) THEN pc["wd"] # "not_started"
                                 ELSE replaced[loc[th].self].running)
    /\ \A th \in Clients :
          pc[th] \in {"watchdog_start_test", "watchdog_start", "watchdog_started"} =>
              loc[th].process_id \in DOMAIN ping_period

\* ---- C30 ----
\* C30: getTaskWithTag(t) never delivers a task that was already waiting when
\* another task of tag t was returned, while that returned task is still waiting:
\* a returned task is redelivered before the other waiting tasks of its tag, and
\* of several returned tasks the one returned last is delivered first.
C30_RequeuedFirstOfTag ==
    [][\A th \in Clients :
          (pc[th] # "checkout" /\ pc'[th] = "checkout" /\ loc'[th].op = "getTaskWithTag") =>
              /\ task[loc'[th].id].tag = loc'[th].tag
              /\ ~\E x \in AllIds :
                    /\ InQueue(waiting_tasks, x)
                    /\ task[x].tag = loc'[th].tag
                    /\ loc'[th].id \in prior[x]]_vars

\* getTaskWithTag has taken the second task of a tag while the first one waits:
\* both were handed out and returned, the second one last
C30_Witness ==
    \E th \in Clients : \E g \in Tags :
        /\ pc[th] = "checkout"
        /\ loc[th].op = "getTaskWithTag"
        /\ loc[th].id = <<g, 1>>
        /\ InQueue(waiting_tasks, <<g, 0>>)

\* ---- C31 ----
\* C31: with no task requeued, getAnyTask never delivers a task while a task that
\* was put into the waiting queue before it, by an earlier addTask, still waits.
C31_FifoAnyTask ==
    [][\A th \in Clients :
          (pc[th] # "checkout" /\ pc'[th] = "checkout" /\ loc'[th].op = "getAnyTask") =>
              ~\E x \in earlier[loc'[th].id] : InQueue(waiting_tasks, x)]_vars

\* getAnyTask has taken the task with the second id while the task with the first
\* id waits: the two addTaskRequest calls overlapped and the second one
\* inserted its task first
C31_Witness ==
    \E th \in Clients : \E x \in AllIds :
        /\ pc[th] = "checkout"
        /\ loc[th].op = "getAnyTask"
        /\ loc[th].id[2] = 1
        /\ x[2] = 0
        /\ InQueue(waiting_tasks, x)

\* ---- C32 ----
\* C32: with no task requeued, getTaskWithTag(t) never delivers a task while a
\* task of tag t that was put into the waiting queue before it still waits, and
\* getResultWithTag(t) never delivers a task while a task of tag t that was put
\* into the finished queue before it is still there, whatever getAnyTask and
\* getAnyResult remove in between.
C32_FifoWithinTag ==
    [][\A th \in Clients :
          /\ (pc[th] # "checkout" /\ pc'[th] = "checkout" /\ loc'[th].op = "getTaskWithTag") =>
                ~\E x \in earlier[loc'[th].id] :
                      InQueue(waiting_tasks, x) /\ task[x].tag = loc'[th].tag
          /\ (pc[th] # "result_read" /\ pc'[th] = "result_read"
                  /\ loc'[th].op = "getResultWithTag") =>
                ~\E x \in earlier_finished[loc'[th].id] :
                      InQueue(finished_tasks, x) /\ task[x].tag = loc'[th].tag]_vars

\* a getAnyTask call has taken a task of another tag and a getTaskWithTag(g) call
\* a task of tag g, with a further task of tag g waiting
C32_Witness ==
    \E th \in Clients : \E o \in Clients \ {th} : \E y \in AllIds :
        /\ pc[th] = "checkout" /\ loc[th].op = "getTaskWithTag"
        /\ pc[o] = "checkout" /\ loc[o].op = "getAnyTask"
        /\ task[loc[o].id].tag # loc[th].tag
        /\ InQueue(waiting_tasks, y)
        /\ task[y].tag = loc[th].tag

\* ---- C33 ----
\* the tasks of tag g in the primary list of q, in the order of that list
OfTag(q, g) ==
    LET HasTag(t) == task[t].tag = g IN SelectSeq(q.tasks, HasTag)

\* C33: in each of the three queues and for each tag, the by-tag list is the
\* subsequence of the primary list made of the tasks with that tag, in the order
\* they have in the primary list.
C33_TagListIsSubsequence ==
    \A g \in Tags :
        /\ waiting_tasks.tasks_by_tag[g] = OfTag(waiting_tasks, g)
        /\ running_tasks.tasks_by_tag[g] = OfTag(running_tasks, g)
        /\ finished_tasks.tasks_by_tag[g] = OfTag(finished_tasks, g)

\* ---- C34 ----
\* C34: a firstTask, firstTaskWithTag or taskWithId call that ends with
\* Terminated leaves the primary list, the by-tag lists and the by-id index of
\* every queue as they were, and the condition of every queue is released, so
\* that other callers can acquire it.
C34_TerminatedLeavesQueue ==
    [][\A th \in Clients :
          (loc'[th].raised = "Terminated" /\ loc'[th] # loc[th]) =>
              /\ waiting_tasks' = waiting_tasks
              /\ running_tasks' = running_tasks
              /\ finished_tasks' = finished_tasks
              /\ waiting_tasks'.task_available = "free"
              /\ running_tasks'.task_available = "free"
              /\ finished_tasks'.task_available = "free"]_vars

\* a call has ended with Terminated while tasks are still in the running queue
C34_Witness ==
    \E th \in Clients :
        /\ loc[th].raised = "Terminated"
        /\ running_tasks.terminate
        /\ running_tasks.tasks # <<>>
        /\ running_tasks.task_available = "free"

\* ---- C35 ----
\* the tasks the slave has received and not yet reported
HeldBySlave ==
    {t \in DOMAIN task :
        InQueue(running_tasks, t) /\ task[t].handling_processor = SlaveId}

\* the slave starts a call of the manager's method op in this step
SlaveStarts(op) ==
    pc[Slave] = "idle" /\ pc'[Slave] # "idle" /\ loc'[Slave].op = op

\* C35 as stated: every task the slave receives from getAnyTask gets exactly
\* one report before the next request, returnTask if and only if the slave has
\* no handler for the tag, else storeException or storeResult; the slave holds
\* at most one task, and no task of an unhandled tag gets to finished.
C35_ReturnOnlyWithoutHandler ==
    [][/\ SlaveStarts("getAnyTask") => HeldBySlave = {}
       /\ (SlaveStarts("storeResult") \/ SlaveStarts("storeException")) =>
              loc'[Slave].id \in HeldBySlave /\ task[loc'[Slave].id].tag \in HandledTags
       /\ SlaveStarts("returnTask") =>
              loc'[Slave].id \in HeldBySlave /\ task[loc'[Slave].id].tag \notin HandledTags]_vars

\* C35, amended: as above, but returnTask is also the report for a task whose
\* handler was interrupted by KeyboardInterrupt; the slave then requests no
\* further task.
C35_OneReportPerTask ==
    /\ [](Cardinality(HeldBySlave) <= 1)
    /\ [](\A t \in DOMAIN task :
             InQueue(finished_tasks, t) => task[t].tag \in HandledTags)
    /\ [][/\ SlaveStarts("getAnyTask") => HeldBySlave = {} /\ ~interrupted
          /\ (SlaveStarts("storeResult") \/ SlaveStarts("storeException")) =>
                 /\ loc'[Slave].id \in HeldBySlave
                 /\ task[loc'[Slave].id].tag \in HandledTags
                 /\ ~interrupted
          /\ SlaveStarts("returnTask") =>
                 /\ loc'[Slave].id \in HeldBySlave
                 /\ task[loc'[Slave].id].tag \notin HandledTags \/ interrupted]_vars

\* the slave has stored the result of one task, has given back the task whose
\* handler was interrupted (it now stands behind a task requested later) and
\* has unregistered
C35_Witness ==
    /\ interrupted
    /\ pc[Slave] = "idle"
    /\ ~SlaveRegistered
    /\ HeldBySlave = {}
    /\ \E t \in DOMAIN task :
           InQueue(finished_tasks, t) /\ task[t].handling_processor = SlaveId
    /\ \E i, j \in 1..Len(waiting_tasks.tasks) :
           /\ i < j
           /\ waiting_tasks.tasks[i][2] > waiting_tasks.tasks[j][2]
           /\ task[waiting_tasks.tasks[j]].tag \in HandledTags

\* ---- C36 ----
\* the locks thread th holds between two steps: the manager's lock and the
\* conditions of the three queues (the Watchdog's lock is taken and released
\* inside one step)
LocksHeld(th) ==
    {l \in {"lock"} : lock = th}
        \cup {q \in {"waiting_tasks"} : waiting_tasks.task_available = th}
        \cup {q \in {"running_tasks"} : running_tasks.task_available = th}
        \cup {q \in {"finished_tasks"} : finished_tasks.task_available = th}

\* C36: no thread holds two of the locks at a time: between steps it holds at
\* most one, and a thread that holds the manager's lock takes no step inside the
\* condition of a queue or the Watchdog's lock, that is, none that changes a
\* queue or the ping tables; the Watchdog loop holds no lock while it sleeps or
\* calls unregisterProcess.
C36_NeverTwoLocks ==
    /\ [](\A th \in Threads : Cardinality(LocksHeld(th)) <= 1)
    /\ [](pc["wd"] \in {"sleep", "unregister"} => LocksHeld("wd") = {})
    /\ [][\A th \in Threads :
            (lock = th /\ pc'[th] # pc[th]) =>
                /\ qvars' = qvars
                /\ ping_period' = ping_period
                /\ last_ping' = last_ping]_vars

\* ---- C37 ----
\* no TaskManager operation is in progress: every caller is between two calls,
\* or waits in getAnyTask/getTaskWithTag/getAnyResult/getResultWithTag for a
\* task it has not yet taken, and the watchdog loop is outside unregisterProcess
Quiescent ==
    /\ \A th \in Clients : pc[th] \in {"idle", "firstTask", "firstResult"}
    /\ pc["wd"] \in {"not_started", "scan", "check", "sleep", "unregister_dead", "dead"}

\* the tasks whose result or exception a caller has retrieved
Retrieved == {t \in DOMAIN task : retrieved[t] # <<>>}

\* C37: whenever no operation is in progress, every task submitted and not yet
\* retrieved stands exactly once in exactly one of the three queues, and the
\* three counts of numberOfTasks add up to submitted minus retrieved.
C37_Conservation ==
    Quiescent =>
        /\ \A t \in Submitted \ Retrieved :
               Count(waiting_tasks, t) + Count(running_tasks, t)
                   + Count(finished_tasks, t) = 1
        /\ numberOfTasks[1] + numberOfTasks[2] + numberOfTasks[3]
               = Cardinality(Submitted) - Cardinality(Retrieved)

\* no call is in progress, the result of one task has been retrieved and
\* another task is handed out
C37_Witness ==
    /\ Quiescent
    /\ Retrieved # {}
    /\ \E t \in Submitted \ Retrieved : InQueue(running_tasks, t)
    /\ numberOfTasks = <<0, 1, 0>>

\* ---- C38 ----
\* C38: with the clock never going back, every task has request_time <=
\* start_time <= end_time as far as these are set; start_time is set while the
\* task is handed out and unset while it waits, also after a requeue, and
\* end_time is set only by the completion of the task.
C38_TimesOrdered ==
    \A t \in DOMAIN task :
        /\ task[t].request_time # None
        /\ task[t].start_time # None => task[t].request_time <= task[t].start_time
        /\ task[t].end_time # None =>
               /\ task[t].start_time # None
               /\ task[t].start_time <= task[t].end_time
               /\ task[t].completed # "unset"
        /\ InQueue(waiting_tasks, t) =>
               task[t].start_time = None /\ task[t].end_time = None
        /\ InQueue(running_tasks, t) =>
               task[t].start_time # None /\ task[t].end_time = None

\* a task was handed out, requeued when its worker was declared dead, handed
\* out again later (one hand-out is still unanswered) and is finished
C38_Witness ==
    \E t \in DOMAIN task :
        /\ declared_dead # {}
        /\ handed[t] > 0
        /\ InQueue(finished_tasks, t)
        /\ task[t].request_time < task[t].start_time
        /\ task[t].start_time <= task[t].end_time

====
